---------------------------- MODULE Spec2Model ----------------------------
(***************************************************************************)
(* Vehicle status server of hackney-status.  The repository holds several  *)
(* revisions of server.js; three of them are modelled here and selected by *)
(* the variable impl:                                                       *)
(*     "server"    src/server.js                                            *)
(*     "part_000"  src/unnamed/part_000                                     *)
(*     "part_001"  src/unnamed/part_001                                     *)
(* Node runs every handler and timer callback to completion, so each is    *)
(* one atomic action.                                                       *)
(*                                                                          *)
(* Time is counted in abstract units.  A timestamp token n >= 0 stands for *)
(* the ISO-8601 string of instant n; Garbage stands for a non-empty string *)
(* that Date.parse cannot read.                                             *)
(***************************************************************************)
EXTENDS Integers, Sequences, FiniteSets, TLC

VARIABLES
  impl,        \* which revision of server.js is running
  token,       \* WEBHOOK_TOKEN ("" when no token is configured)
  now,         \* Date.now()
  onlineMap,   \* the Map callsign -> record
  sseClients,  \* the Set of subscribed responses
  conn,        \* per stream connection: "none", "open" or "broken"
  wrote,       \* per stream connection: the messages delivered to it by the last step
  saveTimer,   \* TRUE while the setTimeout of saveStatusToDisk is pending
  last,        \* the operation of the last step, and the x-webhook-token header if it was a webhook
  res,         \* the response sent by the last step (NoRes if none)
  step,        \* SpecScenario: how many requests of the scripted trace have been sent;
               \* SpecBatch: how many items the request handled last carried;
               \* SpecExpiry: the parity of the heartbeats sent; 0 elsewhere
  disk,        \* STATUS_FILE and the timeouts of saveStatusToDisk; recorded by SpecSave only,
               \* the other specifications leave the file out of the state
  inflight     \* per route: the body of a request received but not yet handled (<<>> if
               \* none); used by SpecBatch only, elsewhere a request is handled as it arrives

vars == <<impl, token, now, onlineMap, sseClients, conn, wrote, saveTimer, last, res, step, disk, inflight>>

-----------------------------------------------------------------------------
(* Bounds *)

MaxTime == 2          \* the clock and the event timestamps range over 0..MaxTime
MaxClients == 2       \* stream connections 1..MaxClients
MaxBatch == 2         \* items per webhook body in SpecStream

-----------------------------------------------------------------------------
(* JavaScript values *)

null == "null"
undefined == "undefined"
nullT == -1           \* null in a timestamp field
undefinedT == -2      \* a missing timestamp field
Garbage == -3         \* a timestamp string that does not parse
NaN == -4

Impls == {"server", "part_000", "part_001"}

\* truthiness of a string-or-null value / of a timestamp-or-null value
Truthy(v) == v \notin {null, undefined, ""}
TruthyT(t) == t \notin {nullT, undefinedT}

\* a || b and a ?? b
Or(a, b) == IF Truthy(a) THEN a ELSE b
OrT(a, b) == IF TruthyT(a) THEN a ELSE b
Coalesce(a, b) == IF a \notin {null, undefined} THEN a ELSE b

\* Date.parse(s) / new Date(s).getTime()
DateParse(t) == IF t >= 0 THEN t ELSE NaN
IsFinite(ms) == ms # NaN

\* the strings the model uses, lower-cased
toLowerCase ==
  "" :> "" @@
  "Busy" :> "busy" @@
  "BusyMeterOff" :> "busymeteroff" @@
  "Clear" :> "clear" @@
  "Dispatched" :> "dispatched" @@
  "NotWorking" :> "notworking" @@
  "Off Shift" :> "off shift" @@
  "On Break" :> "on break" @@
  "On Shift" :> "on shift" @@
  "busy" :> "busy" @@
  "busymeteroff" :> "busymeteroff" @@
  "clear" :> "clear" @@
  "dispatched" :> "dispatched" @@
  "notworking" :> "notworking" @@
  "off" :> "off" @@
  "off duty" :> "off duty" @@
  "off shift" :> "off shift" @@
  "on" :> "on" @@
  "on break" :> "on break" @@
  "on shift" :> "on shift" @@
  "paused" :> "paused" @@
  "signed off" :> "signed off" @@
  "signed on" :> "signed on" @@
  "Signed on after logged out" :> "signed on after logged out" @@
  "signed on after logged out" :> "signed on after logged out" @@
  "shift end, start tomorrow" :> "shift end, start tomorrow"

\* for each lower-cased string, the keywords of the source that occur in it
Substrings ==
  "" :> {} @@
  "busy" :> {"busy"} @@
  "busymeteroff" :> {"off", "busy"} @@
  "clear" :> {"clear"} @@
  "dispatched" :> {} @@
  "notworking" :> {"working"} @@
  "off" :> {"off"} @@
  "off duty" :> {"off duty", "off"} @@
  "off shift" :> {"off shift", "off"} @@
  "on" :> {"on"} @@
  "on break" :> {"break", "on"} @@
  "on shift" :> {"on shift", "on"} @@
  "paused" :> {} @@
  "signed off" :> {"signed off", "off"} @@
  "signed on" :> {"signed on", "on"} @@
  "signed on after logged out" :> {"signed on", "on", "logged out"} @@
  "shift end, start tomorrow" :> {"end", "start"}

\* s.includes(kw), s lower-cased
Includes(s, kw) == kw \in Substrings[s]
IncludesAny(s, kws) == Substrings[s] \cap kws # {}

\* (v || "").toString().toLowerCase()
LowerOf(v) == IF Truthy(v) THEN toLowerCase[v] ELSE ""

\* String.prototype.trim and toUpperCase on the callsigns of the model
trim == " ab12 " :> "ab12" @@ "AB12" :> "AB12" @@ "cd34" :> "cd34"
toUpperCase == "ab12" :> "AB12" @@ "AB12" :> "AB12" @@ "cd34" :> "CD34" @@ " ab12 " :> " AB12 "

\* faulty variant of normKey: the callsign is not trimmed
normKey_NoTrim(s) == toUpperCase[s]

\* normKey: String(s || "").trim().toUpperCase()
normKey(s) == toUpperCase[trim[s]]

-----------------------------------------------------------------------------
(* Records *)

\* {} : the object used when the Map has no record for the key
EmptyObj ==
  [lastPingAt |-> undefinedT, updatedAt |-> undefinedT, explicitOnline |-> undefined,
   driverStatusCode |-> undefined, driverStatusLabel |-> undefined, driverStatus |-> undefined,
   online |-> undefined, lastLocationAt |-> undefinedT, lastStatusAt |-> undefinedT]

MapGet(map, key) == IF key \in DOMAIN map THEN map[key] ELSE EmptyObj
MapSet(map, key, rec) == [k \in (DOMAIN map) \cup {key} |-> IF k = key THEN rec ELSE map[k]]


-----------------------------------------------------------------------------
(* Timeouts, in time units *)

OFFLINE_TIMEOUT_MS == 1     \* server.js and part_000: PING_TIMEOUT_MINUTES * 60 * 1000
OFFLINE_AFTER_MS == 1       \* part_001: OFFLINE_AFTER_MINUTES * 60 * 1000

-----------------------------------------------------------------------------
(* src/server.js : pure functions *)

\* faulty variant of computeOnline: a ping exactly the timeout old counts as
\* timed out
S_computeOnline_AtTimeout(rec, t) ==
  IF rec.explicitOnline = "false" THEN FALSE
  ELSE IF ~TruthyT(rec.lastPingAt) THEN FALSE
  ELSE IF ~IsFinite(DateParse(rec.lastPingAt)) THEN FALSE
  ELSE IF t - DateParse(rec.lastPingAt) >= OFFLINE_TIMEOUT_MS THEN FALSE
  ELSE TRUE

\* computeOnline(rec) with Date.now() = t
S_computeOnline(rec, t) ==
  IF rec.explicitOnline = "false" THEN FALSE
  ELSE IF ~TruthyT(rec.lastPingAt) THEN FALSE
  ELSE IF ~IsFinite(DateParse(rec.lastPingAt)) THEN FALSE
  ELSE IF t - DateParse(rec.lastPingAt) > OFFLINE_TIMEOUT_MS THEN FALSE
  ELSE TRUE

S_mapVehicleStatus(raw) ==
  IF ~Truthy(raw) THEN null
  ELSE LET lower == toLowerCase[raw] IN
       IF lower \in {"busy", "busymeteroff"}                  \* lower.startsWith("busy")
         THEN IF Includes(lower, "account") THEN "Busy (Account)"
              ELSE IF Includes(lower, "cash") THEN "Busy (Cash)"
              ELSE "Busy"
       ELSE IF IncludesAny(lower, {"clear", "free"}) THEN "Clear"
       ELSE raw

S_inferOnlineFromShift(statusText, subType, eventType) ==
  LET s == LowerOf(statusText)
      sub == LowerOf(subType)
      evt == LowerOf(eventType)
  IN IF \/ IncludesAny(s, {"start", "on", "open", "logged in", "loggedon", "signed on"})
        \/ sub = "started"
        \/ Includes(evt, "shiftstart")
       THEN "true"
     ELSE IF \/ IncludesAny(s, {"end", "off", "closed", "logged out", "loggedoff", "signed off"})
             \/ sub = "ended"
             \/ Includes(evt, "shiftend")
       THEN "false"
     ELSE null

-----------------------------------------------------------------------------
(* src/unnamed/part_000 : pure functions *)

\* faulty variant of isNewerTimestamp: an incoming timestamp that cannot be
\* parsed is taken as newer
isNewerTimestamp_Unparsed(incomingIso, existingIso) ==
  IF ~TruthyT(incomingIso) THEN FALSE
  ELSE IF ~IsFinite(DateParse(incomingIso)) THEN TRUE
  ELSE IF ~TruthyT(existingIso) THEN TRUE
  ELSE IF ~IsFinite(DateParse(existingIso)) THEN TRUE
  ELSE DateParse(incomingIso) >= DateParse(existingIso)

\* faulty variant of isNewerTimestamp: any parseable incoming timestamp is
\* taken as newer
isNewerTimestamp_NoCompare(incomingIso, existingIso) ==
  IF ~TruthyT(incomingIso) THEN FALSE
  ELSE IF ~IsFinite(DateParse(incomingIso)) THEN FALSE
  ELSE TRUE

\* faulty variant of isNewerTimestamp: the comparison is the wrong way round
isNewerTimestamp_Reversed(incomingIso, existingIso) ==
  IF ~TruthyT(incomingIso) THEN FALSE
  ELSE IF ~IsFinite(DateParse(incomingIso)) THEN FALSE
  ELSE IF ~TruthyT(existingIso) THEN TRUE
  ELSE IF ~IsFinite(DateParse(existingIso)) THEN TRUE
  ELSE DateParse(existingIso) >= DateParse(incomingIso)

isNewerTimestamp(incomingIso, existingIso) ==
  IF ~TruthyT(incomingIso) THEN FALSE
  ELSE IF ~IsFinite(DateParse(incomingIso)) THEN FALSE
  ELSE IF ~TruthyT(existingIso) THEN TRUE
  ELSE IF ~IsFinite(DateParse(existingIso)) THEN TRUE
  ELSE DateParse(incomingIso) >= DateParse(existingIso)

NotWorkingWords ==
  {"not working", "off shift", "off-duty", "off duty", "logged off", "signed off", "not on shift"}

\* faulty variant of computeOnline: an explicit online flag with a fresh
\* ping is believed before the status is looked at
P0_computeOnline_ExplicitFirst(rec, t) ==
  LET code == Or(rec.driverStatusCode, "")
      statusLower == LowerOf(Or(rec.driverStatusLabel, rec.driverStatus))
      fresh == /\ TruthyT(rec.lastPingAt)
               /\ IsFinite(DateParse(rec.lastPingAt))
               /\ t - DateParse(rec.lastPingAt) <= OFFLINE_TIMEOUT_MS
  IN IF rec.explicitOnline = "true" /\ fresh THEN TRUE
     ELSE IF code = "NotWorking" \/ IncludesAny(statusLower, NotWorkingWords) THEN FALSE
     ELSE rec.explicitOnline = "true" /\ ~TruthyT(rec.lastPingAt)

\* computeOnline(rec) with Date.now() = t
P0_computeOnline(rec, t) ==
  LET code == Or(rec.driverStatusCode, "")
      statusLower == LowerOf(Or(rec.driverStatusLabel, rec.driverStatus))
  IN IF code = "NotWorking" \/ IncludesAny(statusLower, NotWorkingWords) THEN FALSE
     ELSE IF rec.explicitOnline # "true" THEN FALSE
     ELSE IF /\ TruthyT(rec.lastPingAt)
             /\ IsFinite(DateParse(rec.lastPingAt))
             /\ t - DateParse(rec.lastPingAt) > OFFLINE_TIMEOUT_MS THEN FALSE
     ELSE TRUE

vehicleStatusLabel(raw) ==
  IF ~Truthy(raw) THEN null
  ELSE IF raw = "Clear" THEN "Clear"
  ELSE IF raw \in {"BusyMeterOff", "BusyMeterOffAccount"} THEN "Dispatched"
  ELSE IF raw \in {"BusyMeterOnFromMeterOffCash", "BusyMeterOnFromMeterOffAccount"} THEN "Picked up"
  ELSE IF raw = "BusyMeterOnFromClear" THEN "Street Booking"
  ELSE IF raw = "JobOffered" THEN "Offering Job"
  ELSE IF toLowerCase[raw] \in {"busy", "busymeteroff"} THEN "Busy"
  ELSE raw

\* typeof item.IsOnShift === "boolean" ? item.IsOnShift : null
onShiftBool(item) == IF item.IsOnShift \in {"true", "false"} THEN item.IsOnShift ELSE null

ShiftOnWords == {"start", "on shift", "logged in", "loggedon", "signed on"}
ShiftOffWords == {"end", "off shift", "logged out", "loggedoff", "signed off"}

ShiftSaysOn(s, evt, sub) ==
  IncludesAny(s, ShiftOnWords) \/ Includes(evt, "shiftstart") \/ sub = "started"

ShiftSaysOff(s, evt, sub) ==
  \/ IncludesAny(s, ShiftOffWords)
  \/ (Includes(s, "off") /\ ~Includes(s, "offline status ignored"))
  \/ Includes(evt, "shiftend")
  \/ sub = "ended"

shiftStatusLabel(rawStatus, eventType, subType, item) ==
  LET s == LowerOf(rawStatus)
      evt == LowerOf(eventType)
      sub == LowerOf(subType)
  IN IF onShiftBool(item) = "true" THEN "On Shift"
     ELSE IF onShiftBool(item) = "false" THEN "Off Shift"
     ELSE IF Includes(s, "break") THEN "On Break"
     ELSE IF ShiftSaysOn(s, evt, sub) THEN "On Shift"
     ELSE IF ShiftSaysOff(s, evt, sub) THEN "Off Shift"
     ELSE IF Truthy(rawStatus) THEN rawStatus
     ELSE IF evt # "" THEN "Shift: event"
     ELSE IF sub # "" THEN "Shift: sub"
     ELSE null

inferExplicitOnlineFromShift(rawStatus, eventType, subType, item) ==
  LET s == LowerOf(rawStatus)
      evt == LowerOf(eventType)
      sub == LowerOf(subType)
  IN IF onShiftBool(item) # null THEN onShiftBool(item)
     ELSE IF ShiftSaysOn(s, evt, sub) THEN "true"
     ELSE IF ShiftSaysOff(s, evt, sub) THEN "false"
     ELSE null

\* the second inference of the ShiftChange handler, from the label
P0_explicitFromLabel(explicit, label) ==
  IF explicit = null /\ Truthy(label)
    THEN LET l == toLowerCase[label] IN
         IF IncludesAny(l, {"off shift", "off duty", "logged off", "signed off"}) THEN "false"
         ELSE IF IncludesAny(l, {"on shift", "on duty", "logged on", "logged in", "signed on"}) THEN "true"
         ELSE explicit
    ELSE explicit

-----------------------------------------------------------------------------
(* src/unnamed/part_001 : pure functions *)

inferOnline(obj) ==
  LET s == LowerOf(Coalesce(obj.status, ""))
      sub == LowerOf(Coalesce(obj.SubEventType, ""))
  IN IF s \in {"on", "online", "active", "started", "loggedin", "open", "available", "true", "1"}
       THEN "true"
     ELSE IF s \in {"off", "offline", "inactive", "ended", "loggedout", "closed", "unavailable", "false", "0"}
       THEN "false"
     ELSE IF sub = "started" THEN "true"
     ELSE IF sub = "ended" THEN "false"
     ELSE null     \* the items have no StartedDate, EndedDate, Driver or Vehicle

inferOnlineFromDriverStatus(statusStr) ==
  IF ~Truthy(statusStr) THEN null
  ELSE LET s == toLowerCase[statusStr] IN
       IF IncludesAny(s, {"clear", "busy", "onjob", "on job", "prebooked", "pre-booked",
                          "stacked", "allocation", "working", "available"}) THEN "true"
       ELSE IF IncludesAny(s, {"offline", "off shift", "offshift", "no pda", "nopda",
                               "logged off", "logoff", "log off", "off-duty", "off duty"}) THEN "false"
       ELSE null

\* getOrCreateRecord(key): the record a missing key gets
P1_newRecord(t) ==
  [EmptyObj EXCEPT !.online = "false", !.updatedAt = t, !.lastPingAt = nullT,
                   !.lastLocationAt = nullT, !.lastStatusAt = nullT, !.driverStatus = null]

Max(a, b) == IF a >= b THEN a ELSE b

\* Math.max over the three times; NaN if one of them is NaN
P1_latest(rec, t) ==
  LET lastLoc == IF TruthyT(rec.lastLocationAt) THEN DateParse(rec.lastLocationAt) ELSE 0
      lastStat == IF TruthyT(rec.lastStatusAt) THEN DateParse(rec.lastStatusAt) ELSE 0
  IN IF NaN \in {lastLoc, lastStat, DateParse(t)} THEN NaN
     ELSE Max(Max(lastLoc, lastStat), DateParse(t))

\* updatePing(rec, {kind, ts, driverStatus, onlineHint}) up to the point where
\* new Date(latest).toISOString() is evaluated
P1_stamp(rec, kind, t) ==
  [rec EXCEPT !.updatedAt = t,
              !.lastLocationAt = IF kind = "location" THEN t ELSE @,
              !.lastStatusAt = IF kind = "status" THEN t ELSE @]

\* toISOString throws a RangeError on an invalid date
P1_updatePingThrows(rec, kind, t) == ~IsFinite(P1_latest(P1_stamp(rec, kind, t), t))

updatePing(rec, kind, t, driverStatus, onlineHint) ==
  LET r1 == P1_stamp(rec, kind, t)
      r2 == [r1 EXCEPT !.lastPingAt = P1_latest(r1, t)]
      r3 == IF driverStatus # undefined THEN [r2 EXCEPT !.driverStatus = driverStatus] ELSE r2
  IN IF onlineHint \in {"true", "false"} THEN [r3 EXCEPT !.online = onlineHint]
     ELSE IF r3.online = "false" THEN [r3 EXCEPT !.online = "true"]
     ELSE r3


applyOfflineTimeout(rec, t) ==
  IF ~TruthyT(rec.lastPingAt) THEN [rec EXCEPT !.online = "false"]
  ELSE IF t - DateParse(rec.lastPingAt) > OFFLINE_AFTER_MS THEN [rec EXCEPT !.online = "false"]
  ELSE rec


-----------------------------------------------------------------------------
(* Messages and read views *)

\* computeOnline of the running revision; part_001 reads the stored flag (!!v.online)
DerivedOnline(im, rec, t) ==
  CASE im = "server" -> S_computeOnline(rec, t)
    [] im = "part_000" -> P0_computeOnline(rec, t)
    [] im = "part_001" -> rec.online = "true"

\* the payload object of sseBroadcastUpdate / broadcastStatus / sseBroadcast("status", ...)
StatusPayload(im, key, rec, t) ==
  [callsign |-> key,
   online |-> DerivedOnline(im, rec, t),
   updatedAt |-> IF im = "part_001" THEN rec.updatedAt ELSE OrT(rec.updatedAt, nullT),
   driverStatus |-> IF im = "part_000"
                      THEN Or(rec.driverStatus, Or(rec.driverStatusLabel, null))
                      ELSE Or(rec.driverStatus, null),
   driverStatusCode |-> IF im = "part_000" THEN Or(rec.driverStatusCode, null) ELSE undefined]

\* one entry of the array built by GET /api/status
ApiEntry(im, key, rec, t) ==
  [callsign |-> key,
   online |-> DerivedOnline(im, rec, t),
   updatedAt |-> OrT(rec.updatedAt, nullT),
   driverStatus |-> IF im = "part_000"
                      THEN Or(rec.driverStatus, Or(rec.driverStatusLabel, null))
                      ELSE Or(rec.driverStatus, null),
   driverStatusCode |-> IF im = "part_000" THEN Or(rec.driverStatusCode, null) ELSE undefined]

\* faulty variant of the snapshot entry: online is the stored flag, without
\* the ping timeout
SnapshotEntry_StoredFlag(im, key, rec, t) ==
  [callsign |-> key,
   online |-> IF im = "part_001" THEN rec.online = "true" ELSE rec.explicitOnline = "true",
   updatedAt |-> OrT(rec.updatedAt, nullT),
   driverStatus |-> IF im = "part_000"
                      THEN Or(rec.driverStatus, Or(rec.driverStatusLabel, null))
                      ELSE Or(rec.driverStatus, null),
   driverStatusCode |-> IF im = "part_000" THEN Or(rec.driverStatusCode, null) ELSE undefined]

\* one entry of the array built by GET /api/status/stream
SnapshotEntry(im, key, rec, t) ==
  [callsign |-> key,
   online |-> DerivedOnline(im, rec, t),
   updatedAt |-> OrT(rec.updatedAt, nullT),
   driverStatus |-> IF im = "part_000"
                      THEN Or(rec.driverStatus, Or(rec.driverStatusLabel, null))
                      ELSE Or(rec.driverStatus, null),
   driverStatusCode |-> IF im = "part_000" THEN Or(rec.driverStatusCode, null) ELSE undefined]

\* the arrays, as sets of entries
ApiStatusData(im, map, t) == {ApiEntry(im, k, map[k], t) : k \in DOMAIN map}
SnapshotData(im, map, t) == {SnapshotEntry(im, k, map[k], t) : k \in DOMAIN map}

NoPayload ==
  [callsign |-> undefined, online |-> FALSE, updatedAt |-> undefinedT,
   driverStatus |-> undefined, driverStatusCode |-> undefined]

StatusMsg(payload) == [event |-> "status", payload |-> payload, entries |-> {}]
SnapshotMsg(entries) == [event |-> "snapshot", payload |-> NoPayload, entries |-> entries]
HeartbeatMsg == [event |-> "heartbeat", payload |-> NoPayload, entries |-> {}]

-----------------------------------------------------------------------------
(* Webhook items *)

\* An item is an object with the fields below; a field the item does not
\* carry is undefined.  The callsign is carried in item.callsign and the
\* timestamp in item.timestamp, which every handler of every revision reads.
Item(cs, ts, vs, st) ==
  [callsign |-> cs, timestamp |-> ts, VehicleStatus |-> vs, status |-> st,
   IsOnShift |-> undefined, EventType |-> undefined, SubEventType |-> undefined]

\* extractCallsignGeneric / extractCallsign: the first alias probed is obj.callsign
extractCallsign(obj) == IF Truthy(obj.callsign) THEN obj.callsign ELSE null

\* the accumulator of a handler's loop over the items
Acc(map, updates, out, thrown) ==
  [map |-> map, updates |-> updates, out |-> out, thrown |-> thrown]

Accept(im, acc, key, rec, t) ==
  Acc(MapSet(acc.map, key, rec), acc.updates + 1,
      Append(acc.out, StatusMsg(StatusPayload(im, key, rec, t))), FALSE)

-----------------------------------------------------------------------------
(* src/server.js : the bodies of the three loops *)

\* the record a ping stores
S_pingRecord(existing, ts) ==
  [existing EXCEPT !.lastPingAt = ts, !.updatedAt = ts,
                   !.explicitOnline = Coalesce(existing.explicitOnline, "true")]

S_HackneyLocationItem(acc, item, t) ==
  LET cs == extractCallsign(item) IN
  IF ~Truthy(cs) THEN acc
  ELSE LET key == normKey(cs)
           ts == OrT(item.timestamp, t)
           existing == MapGet(acc.map, key)
       IN Accept("server", acc, key, S_pingRecord(existing, ts), t)

S_StatusItem(acc, track, t) ==
  LET cs == extractCallsign(track) IN
  IF ~Truthy(cs) THEN acc
  ELSE LET key == normKey(cs)
           ts == OrT(track.timestamp, t)
           rawStatus == Or(track.VehicleStatus, null)
           pretty == S_mapVehicleStatus(rawStatus)
           existing == MapGet(acc.map, key)
           rec == [existing EXCEPT !.lastPingAt = ts, !.updatedAt = ts,
                                   !.driverStatus = Coalesce(pretty, Coalesce(existing.driverStatus, null)),
                                   !.explicitOnline = "true"]
       IN Accept("server", acc, key, rec, t)

S_ShiftChangeItem(acc, item, t) ==
  LET cs == extractCallsign(item) IN
  IF ~Truthy(cs) THEN acc
  ELSE LET key == normKey(cs)
           ts == OrT(item.timestamp, t)
           rawStatus == Coalesce(item.status, null)
           eventType == Or(item.EventType, null)
           subType == Or(item.SubEventType, null)
           explicit == S_inferOnlineFromShift(rawStatus, subType, eventType)
           existing == MapGet(acc.map, key)
           rec == [existing EXCEPT
                     !.lastPingAt = ts, !.updatedAt = ts,
                     !.driverStatus = Or(IF Truthy(rawStatus) THEN rawStatus ELSE existing.driverStatus, null),
                     !.explicitOnline = IF explicit # null THEN explicit
                                        ELSE Coalesce(existing.explicitOnline, null)]
       IN Accept("server", acc, key, rec, t)

-----------------------------------------------------------------------------
(* src/unnamed/part_000 : the bodies of the three loops *)

\* faulty variant of the ping's record: a ping always marks the record online
P0_pingRecord_ForceOnline(existing, ts) ==
  [existing EXCEPT !.lastPingAt = ts, !.updatedAt = ts, !.explicitOnline = "true"]

\* faulty variant of the ping record: a stored updatedAt is not advanced
P0_pingRecord_KeepsUpdatedAt(existing, ts) ==
  [existing EXCEPT !.lastPingAt = ts, !.updatedAt = OrT(existing.updatedAt, ts),
                   !.explicitOnline = IF existing.explicitOnline \in {undefined, null}
                                        THEN "true" ELSE existing.explicitOnline]

\* faulty variant of the ping record: the record is rebuilt from the ping
\* alone, so the stored status code and labels are lost
P0_pingRecord_DropsStatus(existing, ts) ==
  [EmptyObj EXCEPT !.lastPingAt = ts, !.updatedAt = ts,
                   !.explicitOnline = IF existing.explicitOnline \in {undefined, null}
                                        THEN "true" ELSE existing.explicitOnline]

\* the record an accepted ping stores
P0_pingRecord(existing, ts) ==
  [existing EXCEPT !.lastPingAt = ts, !.updatedAt = ts,
                   !.explicitOnline = IF existing.explicitOnline \in {undefined, null}
                                        THEN "true" ELSE existing.explicitOnline]

P0_HackneyLocationItem(acc, item, t) ==
  LET cs == extractCallsign(item) IN
  IF ~Truthy(cs) THEN acc
  ELSE LET key == normKey(cs)
           ts == OrT(item.timestamp, t)
           existing == MapGet(acc.map, key)
       IN IF ~isNewerTimestamp(ts, OrT(existing.updatedAt, OrT(existing.lastPingAt, nullT)))
            THEN acc
          ELSE Accept("part_000", acc, key, P0_pingRecord(existing, ts), t)

\* faulty variant of the Status record: lastPingAt is carried over as it is,
\* without the fallback on the event's timestamp
P0_statusRecord_NoPingFill(existing, ts, rawCode, label) ==
  LET newLabel == Coalesce(label, Coalesce(existing.driverStatusLabel, Coalesce(rawCode, null)))
  IN [existing EXCEPT
        !.updatedAt = ts,
        !.driverStatusCode = Or(rawCode, Or(existing.driverStatusCode, null)),
        !.driverStatusLabel = newLabel,
        !.explicitOnline = "true",
        !.driverStatus = newLabel]

\* faulty variant of the Status record: lastPingAt falls back on the stored
\* updatedAt instead of the stored lastPingAt
P0_statusRecord_FromUpdatedAt(existing, ts, rawCode, label) ==
  LET newLabel == Coalesce(label, Coalesce(existing.driverStatusLabel, Coalesce(rawCode, null)))
  IN [existing EXCEPT
        !.lastPingAt = OrT(existing.updatedAt, ts),
        !.updatedAt = ts,
        !.driverStatusCode = Or(rawCode, Or(existing.driverStatusCode, null)),
        !.driverStatusLabel = newLabel,
        !.explicitOnline = "true",
        !.driverStatus = newLabel]

\* the record an accepted Status track stores
\* faulty variant of the status record: a known explicitOnline is kept
P0_statusRecord_KeepsExplicit(existing, ts, rawCode, label) ==
  LET newLabel == Coalesce(label, Coalesce(existing.driverStatusLabel, Coalesce(rawCode, null)))
  IN [existing EXCEPT
        !.lastPingAt = OrT(existing.lastPingAt, ts),
        !.updatedAt = ts,
        !.driverStatusCode = Or(rawCode, Or(existing.driverStatusCode, null)),
        !.driverStatusLabel = newLabel,
        !.explicitOnline = IF existing.explicitOnline \in {"true", "false"}
                             THEN existing.explicitOnline ELSE "true",
        !.driverStatus = newLabel]

P0_statusRecord(existing, ts, rawCode, label) ==
  LET newLabel == Coalesce(label, Coalesce(existing.driverStatusLabel, Coalesce(rawCode, null)))
  IN [existing EXCEPT
        !.lastPingAt = OrT(existing.lastPingAt, ts),
        !.updatedAt = ts,
        !.driverStatusCode = Or(rawCode, Or(existing.driverStatusCode, null)),
        !.driverStatusLabel = newLabel,
        !.explicitOnline = "true",
        !.driverStatus = newLabel]

P0_StatusItem(acc, track, t) ==
  LET cs == extractCallsign(track) IN
  IF ~Truthy(cs) THEN acc
  ELSE LET key == normKey(cs)
           ts == OrT(track.timestamp, t)
           rawCode == Or(track.VehicleStatus, null)
           label == vehicleStatusLabel(rawCode)
           existing == MapGet(acc.map, key)
       IN IF ~isNewerTimestamp(ts, OrT(existing.updatedAt, nullT)) THEN acc
          ELSE Accept("part_000", acc, key, P0_statusRecord(existing, ts, rawCode, label), t)

\* faulty variant of the shift record: a sign-off keeps the stored lastPingAt
P0_shiftRecord_KeepsPing(existing, ts, label, explicit) ==
  LET newLabel == Coalesce(label, Coalesce(existing.driverStatusLabel,
                                           Coalesce(existing.driverStatus, null)))
  IN [existing EXCEPT
        !.updatedAt = ts,
        !.lastPingAt = IF explicit = "true" THEN ts ELSE OrT(existing.lastPingAt, nullT),
        !.driverStatusLabel = newLabel,
        !.driverStatusCode = Coalesce(existing.driverStatusCode, null),
        !.explicitOnline = IF explicit \in {"true", "false"} THEN explicit
                           ELSE Coalesce(existing.explicitOnline, null),
        !.driverStatus = newLabel]

\* faulty variant of the shift record: every shift change refreshes lastPingAt
P0_shiftRecord_PingAlways(existing, ts, label, explicit) ==
  LET newLabel == Coalesce(label, Coalesce(existing.driverStatusLabel,
                                           Coalesce(existing.driverStatus, null)))
  IN [existing EXCEPT
        !.updatedAt = ts,
        !.lastPingAt = ts,
        !.driverStatusLabel = newLabel,
        !.driverStatusCode = Coalesce(existing.driverStatusCode, null),
        !.explicitOnline = IF explicit \in {"true", "false"} THEN explicit
                           ELSE Coalesce(existing.explicitOnline, null),
        !.driverStatus = newLabel]

\* faulty variant of the shift record: an inference of null is stored too
P0_shiftRecord_Clobbers(existing, ts, label, explicit) ==
  LET newLabel == Coalesce(label, Coalesce(existing.driverStatusLabel,
                                           Coalesce(existing.driverStatus, null)))
  IN [existing EXCEPT
        !.updatedAt = ts,
        !.lastPingAt = IF explicit = "true" THEN ts
                       ELSE IF explicit = "false" THEN nullT
                       ELSE OrT(existing.lastPingAt, nullT),
        !.driverStatusLabel = newLabel,
        !.driverStatusCode = Coalesce(existing.driverStatusCode, null),
        !.explicitOnline = explicit,
        !.driverStatus = newLabel]

\* the record an accepted shift change stores
P0_shiftRecord(existing, ts, label, explicit) ==
  LET newLabel == Coalesce(label, Coalesce(existing.driverStatusLabel,
                                           Coalesce(existing.driverStatus, null)))
  IN [existing EXCEPT
        !.updatedAt = ts,
        !.lastPingAt = IF explicit = "true" THEN ts
                       ELSE IF explicit = "false" THEN nullT
                       ELSE OrT(existing.lastPingAt, nullT),
        !.driverStatusLabel = newLabel,
        !.driverStatusCode = Coalesce(existing.driverStatusCode, null),
        !.explicitOnline = IF explicit \in {"true", "false"} THEN explicit
                           ELSE Coalesce(existing.explicitOnline, null),
        !.driverStatus = newLabel]

P0_ShiftChangeItem(acc, item, t) ==
  LET cs == extractCallsign(item) IN
  IF ~Truthy(cs) THEN acc
  ELSE LET key == normKey(cs)
           ts == OrT(item.timestamp, t)
           rawStatus == Coalesce(item.status, null)
           eventType == Or(item.EventType, null)
           subType == Or(item.SubEventType, null)
           label == shiftStatusLabel(rawStatus, eventType, subType, item)
           explicit == P0_explicitFromLabel(
                         inferExplicitOnlineFromShift(rawStatus, eventType, subType, item), label)
           existing == MapGet(acc.map, key)
       IN IF ~isNewerTimestamp(ts, OrT(existing.updatedAt, nullT)) THEN acc
          ELSE Accept("part_000", acc, key, P0_shiftRecord(existing, ts, label, explicit), t)

-----------------------------------------------------------------------------
(* src/unnamed/part_001 : the bodies of the three loops *)

\* getOrCreateRecord, updatePing, applyOfflineTimeout, onlineMap.set, broadcast.
\* When updatePing throws, the record already carries the new updatedAt and
\* lastLocationAt / lastStatusAt (it is mutated in place, and a new record is
\* already in the Map); the handler's catch then answers 400.
P1_apply(acc, key, kind, ts, driverStatus, onlineHint, t) ==
  LET rec0 == IF key \in DOMAIN acc.map THEN acc.map[key] ELSE P1_newRecord(t)
  IN IF P1_updatePingThrows(rec0, kind, ts)
       THEN Acc(MapSet(acc.map, key, P1_stamp(rec0, kind, ts)), acc.updates, acc.out, TRUE)
     ELSE LET ds == IF driverStatus = "keep" THEN rec0.driverStatus ELSE driverStatus
              rec == applyOfflineTimeout(updatePing(rec0, kind, ts, ds, onlineHint), t)
          IN Accept("part_001", acc, key, rec, t)

P1_HackneyLocationItem(acc, item, t) ==
  LET cs == extractCallsign(item) IN
  IF ~Truthy(cs) THEN acc
  ELSE P1_apply(acc, normKey(cs), "location", OrT(item.timestamp, t), undefined, "true", t)

P1_StatusItem(acc, item, t) ==
  LET cs == extractCallsign(item) IN
  IF ~Truthy(cs) THEN acc
  ELSE LET rawStatus == Coalesce(item.status, null)
           onlineFromDriver == inferOnlineFromDriverStatus(rawStatus)
           onlineGeneric == inferOnline(item)
           onlineHint == IF onlineFromDriver # null THEN onlineFromDriver ELSE onlineGeneric
       IN P1_apply(acc, normKey(cs), "status", OrT(item.timestamp, t),
                   IF rawStatus # null THEN rawStatus ELSE "keep", onlineHint, t)

P1_ShiftChangeItem(acc, item, t) ==
  LET cs == extractCallsign(item)
      onlineHint == inferOnline(item)
  IN IF ~Truthy(cs) THEN acc
     ELSE IF onlineHint = null THEN acc
     ELSE P1_apply(acc, normKey(cs), "status", OrT(item.timestamp, t), undefined, onlineHint, t)

-----------------------------------------------------------------------------
(* The loop of a webhook handler *)

HandleItem(im, hook, acc, item, t) ==
  CASE im = "server" /\ hook = "HackneyLocation" -> S_HackneyLocationItem(acc, item, t)
    [] im = "server" /\ hook = "Status" -> S_StatusItem(acc, item, t)
    [] im = "server" /\ hook = "ShiftChange" -> S_ShiftChangeItem(acc, item, t)
    [] im = "part_000" /\ hook = "HackneyLocation" -> P0_HackneyLocationItem(acc, item, t)
    [] im = "part_000" /\ hook = "Status" -> P0_StatusItem(acc, item, t)
    [] im = "part_000" /\ hook = "ShiftChange" -> P0_ShiftChangeItem(acc, item, t)
    [] im = "part_001" /\ hook = "HackneyLocation" -> P1_HackneyLocationItem(acc, item, t)
    [] im = "part_001" /\ hook = "Status" -> P1_StatusItem(acc, item, t)
    [] im = "part_001" /\ hook = "ShiftChange" -> P1_ShiftChangeItem(acc, item, t)

\* faulty variant of the loop: an item that is skipped ends the loop
RECURSIVE ProcessItems_StopsAtSkip(_, _, _, _, _, _)
ProcessItems_StopsAtSkip(im, hook, items, i, acc, t) ==
  IF i > Len(items) \/ acc.thrown THEN acc
  ELSE LET nxt == HandleItem(im, hook, acc, items[i], t)
       IN IF nxt.updates = acc.updates THEN acc
          ELSE ProcessItems_StopsAtSkip(im, hook, items, i + 1, nxt, t)

\* for (const item of items) { ... }, left when an item throws
RECURSIVE ProcessItems(_, _, _, _, _, _)
ProcessItems(im, hook, items, i, acc, t) ==
  IF i > Len(items) \/ acc.thrown THEN acc
  ELSE ProcessItems(im, hook, items, i + 1, HandleItem(im, hook, acc, items[i], t), t)

\* faulty variant of the handler: the timestamp check of every item reads
\* the store as it was when the request began, the writes follow later
RunHandler_StaleRead(im, hook, items, map, t) ==
  LET single(i) == ProcessItems(im, hook, <<items[i]>>, 1, Acc(map, 0, <<>>, FALSE), t)
      accepted == {i \in 1..Len(items) : single(i).updates = 1}
      writers(k) == {i \in accepted : k \in DOMAIN single(i).map /\ normKey(extractCallsign(items[i])) = k}
      nth(j) == CHOOSE i \in accepted : Cardinality({x \in accepted : x <= i}) = j
      keys == DOMAIN map \cup UNION {DOMAIN single(i).map : i \in accepted}
  IN Acc([k \in keys |-> IF writers(k) = {} THEN map[k]
                         ELSE single(CHOOSE i \in writers(k) : \A x \in writers(k) : x <= i).map[k]],
         Cardinality(accepted),
         [j \in 1..Cardinality(accepted) |-> single(nth(j)).out[1]],
         FALSE)

RunHandler(im, hook, items, map, t) ==
  ProcessItems(im, hook, items, 1, Acc(map, 0, <<>>, FALSE), t)


-----------------------------------------------------------------------------
(* Inputs *)

Callsigns == {" ab12 ", "AB12"}
VehicleStatuses == {undefined, "Clear", "NotWorking"}
ShiftStatuses == {"signed on", "signed off", "paused"}
P1_DriverStatuses == {undefined, "Clear", "off duty"}
P1_ShiftStatuses == {"on", "off", "paused"}
Secret == "s3cret"
Headers == {undefined, Secret, "wrong"}

\* an item's timestamp: missing, unparseable, or the string of an instant
Timestamps(maxT) == {undefinedT, Garbage} \cup (0..maxT)

ItemsOf(im, hook, css, tss) ==
  CASE hook = "HackneyLocation" ->
         {Item(cs, ts, undefined, undefined) : cs \in css, ts \in tss}
    [] hook = "Status" /\ im # "part_001" ->
         {Item(cs, ts, vs, undefined) : cs \in css, ts \in tss, vs \in VehicleStatuses}
    [] hook = "Status" /\ im = "part_001" ->
         {Item(cs, ts, undefined, st) : cs \in css, ts \in tss, st \in P1_DriverStatuses}
    [] hook = "ShiftChange" /\ im # "part_001" ->
         {Item(cs, ts, undefined, st) : cs \in css, ts \in tss, st \in ShiftStatuses}
    [] hook = "ShiftChange" /\ im = "part_001" ->
         {Item(cs, ts, undefined, st) : cs \in css, ts \in tss, st \in P1_ShiftStatuses}

Hooks == {"HackneyLocation", "Status", "ShiftChange"}

\* the bodies: arrays of at most n items
RECURSIVE SeqsUpTo(_, _)
SeqsUpTo(S, n) ==
  IF n = 0 THEN {<<>>}
  ELSE LET shorter == SeqsUpTo(S, n - 1)
       IN shorter \cup {Append(q, x) : q \in {r \in shorter : Len(r) = n - 1}, x \in S}

Clients == 1..MaxClients
Op(op) == [op |-> op, header |-> undefined]
NoRes == [status |-> 0, ok |-> FALSE, updates |-> -1, data |-> {}]
Silent == [c \in Clients |-> <<>>]

\* faulty variant of the broadcast: a write that throws ends the loop, so the
\* responses after the failing one (here: with a larger number) get nothing
Broadcast_AbortsOnThrow(msgs) ==
  [c \in Clients |-> IF /\ c \in sseClients /\ conn[c] = "open"
                         /\ ~\E b \in sseClients : conn[b] # "open" /\ b < c
                       THEN msgs ELSE <<>>]

\* faulty variant of the broadcast: of the events of one request only the
\* last is written
Broadcast_LastOnly(msgs) ==
  [c \in Clients |-> IF c \in sseClients /\ conn[c] = "open" /\ msgs # <<>>
                       THEN <<msgs[Len(msgs)]>> ELSE <<>>]

\* res.write(msg) to every response of sseClients; a write to a connection
\* whose peer is gone delivers nothing
Broadcast(msgs) ==
  [c \in Clients |-> IF c \in sseClients /\ conn[c] = "open" THEN msgs ELSE <<>>]

-----------------------------------------------------------------------------
(* State machine *)

\* no status file, no timeout pending, saveStatusToDisk never called
NoDisk == [file |-> <<>>, timers |-> 0, age |-> 0, calls |-> 0, failed |-> FALSE]

InitOver(impls, tokens) ==
  /\ impl \in impls
  /\ token \in tokens
  /\ now = 0
  /\ onlineMap = [k \in {} |-> EmptyObj]
  /\ sseClients = {}
  /\ conn = [c \in Clients |-> "none"]
  /\ wrote = Silent
  /\ saveTimer = FALSE
  /\ last = Op("init")
  /\ res = NoRes
  /\ step = 0
  /\ disk = NoDisk
  /\ inflight = [h \in Hooks |-> <<>>]

\* faulty variant of checkWebhookAuth: a request without the header passes
checkWebhookAuth_AbsentPasses(header) == token = "" \/ header = undefined \/ header = token

\* checkWebhookAuth
checkWebhookAuth(header) == token = "" \/ header = token

\* POST /webhook/<hook> answered 401
WebhookUnauthorized(hook, header, items) ==
  /\ ~checkWebhookAuth(header)
  /\ last' = [op |-> hook, header |-> header]
  /\ res' = [status |-> 401, ok |-> FALSE, updates |-> -1, data |-> {}]
  /\ wrote' = Silent
  /\ UNCHANGED <<step, disk, inflight, impl, token, now, onlineMap, sseClients, conn, saveTimer>>

\* POST /webhook/<hook>, authorized: the loop, saveStatusToDisk, the response
HandleWebhook(hook, header, items) ==
  /\ checkWebhookAuth(header)
  /\ \E r \in {RunHandler(impl, hook, items, onlineMap, now)} :
       /\ onlineMap' = r.map
       /\ wrote' = Broadcast(r.out)
       /\ saveTimer' = IF r.updates > 0 /\ ~r.thrown THEN TRUE ELSE saveTimer
       /\ res' = IF r.thrown
                   THEN [status |-> 400, ok |-> FALSE, updates |-> -1, data |-> {}]
                   ELSE [status |-> 200, ok |-> TRUE, updates |-> r.updates, data |-> {}]
  /\ last' = [op |-> hook, header |-> header]
  /\ UNCHANGED <<impl, token, now, sseClients, conn>>

Webhook(hook, header, items) == HandleWebhook(hook, header, items) /\ UNCHANGED <<step, disk, inflight>>

\* GET /api/status
HandleApiStatus ==
  /\ last' = Op("api/status")
  /\ res' = [status |-> 200, ok |-> TRUE, updates |-> -1,
             data |-> ApiStatusData(impl, onlineMap, now)]
  /\ wrote' = Silent
  /\ UNCHANGED <<impl, token, now, onlineMap, sseClients, conn, saveTimer>>

ApiStatus == HandleApiStatus /\ UNCHANGED <<step, disk, inflight>>

\* GET /api/status/stream: the snapshot is written, then the response is added
StreamConnect(c) ==
  /\ conn[c] = "none"
  /\ conn' = [conn EXCEPT ![c] = "open"]
  /\ wrote' = [Silent EXCEPT ![c] = <<SnapshotMsg(SnapshotData(impl, onlineMap, now))>>]
  /\ sseClients' = sseClients \cup {c}
  /\ last' = Op("api/status/stream")
  /\ res' = NoRes
  /\ UNCHANGED <<step, disk, inflight, impl, token, now, onlineMap, saveTimer>>

\* the peer of a stream goes away; req has not emitted "close" yet
PeerDisconnect(c) ==
  /\ conn[c] = "open"
  /\ conn' = [conn EXCEPT ![c] = "broken"]
  /\ wrote' = Silent
  /\ last' = Op("disconnect")
  /\ res' = NoRes
  /\ UNCHANGED <<step, disk, inflight, impl, token, now, onlineMap, sseClients, saveTimer>>

\* faulty variant of the close handler: the response stays in sseClients
StreamClose_KeepsSubscriber(c) ==
  /\ conn[c] = "broken"
  /\ conn' = [conn EXCEPT ![c] = "none"]
  /\ wrote' = Silent
  /\ last' = Op("close")
  /\ res' = NoRes
  /\ UNCHANGED <<step, disk, inflight, impl, token, now, onlineMap, sseClients, saveTimer>>

\* req.on("close", ...)
StreamClose(c) ==
  /\ conn[c] = "broken"
  /\ conn' = [conn EXCEPT ![c] = "none"]
  /\ sseClients' = sseClients \ {c}
  /\ wrote' = Silent
  /\ last' = Op("close")
  /\ res' = NoRes
  /\ UNCHANGED <<step, disk, inflight, impl, token, now, onlineMap, saveTimer>>

\* setInterval(..., HEARTBEAT_MS)
HeartbeatWrites ==
  /\ sseClients # {}
  /\ wrote' = Broadcast(<<HeartbeatMsg>>)
  /\ last' = Op("heartbeat")
  /\ res' = NoRes
  /\ UNCHANGED <<disk, inflight, impl, token, now, onlineMap, sseClients, conn, saveTimer>>

Heartbeat == HeartbeatWrites /\ UNCHANGED step

\* the callback of the setTimeout of saveStatusToDisk (the file it writes is
\* outside this state)
SaveTimerFires ==
  /\ saveTimer
  /\ saveTimer' = FALSE
  /\ wrote' = Silent
  /\ last' = Op("save")
  /\ res' = NoRes
  /\ UNCHANGED <<step, disk, inflight, impl, token, now, onlineMap, sseClients, conn>>

\* the clock advances by one unit; a unit is far longer than the 500 ms of
\* the save timer, so no save timer is pending across it
Tick(maxT) ==
  /\ now < maxT
  /\ ~saveTimer
  /\ now' = now + 1
  /\ wrote' = Silent
  /\ last' = Op("tick")
  /\ res' = NoRes
  /\ UNCHANGED <<step, disk, inflight, impl, token, onlineMap, sseClients, conn, saveTimer>>


\* the orders in which a loop over the Map can visit the keys of K (the Map
\* iterates in insertion order, which the model does not record)
Orders(K) == {q \in [1..Cardinality(K) -> K] : \A i, j \in 1..Cardinality(K) : q[i] = q[j] => i = j}

\* faulty variant of the sweep's test: every record the timeout holds offline
\* counts as changed
SweepChanged_EveryOffline(map, t) == {k \in DOMAIN map : applyOfflineTimeout(map[k], t).online = "false"}

\* the keys whose online flag applyOfflineTimeout changes
SweepChanged(map, t) == {k \in DOMAIN map : applyOfflineTimeout(map[k], t).online # map[k].online}

\* faulty variant of the sweep's update: the flag is recomputed from the age
\* of the ping, so a record with a fresh ping is turned online
SweepRecord_Recomputes(rec, t) ==
  LET fresh == TruthyT(rec.lastPingAt) /\ ~(t - DateParse(rec.lastPingAt) > OFFLINE_AFTER_MS)
      after == [rec EXCEPT !.online = IF fresh THEN "true" ELSE "false"]
  IN IF after.online # rec.online THEN [after EXCEPT !.updatedAt = t] ELSE after

\* the record the sweep leaves: applyOfflineTimeout, and updatedAt if the flag changed
SweepRecord(rec, t) ==
  LET after == applyOfflineTimeout(rec, t)
  IN IF after.online # rec.online THEN [after EXCEPT !.updatedAt = t] ELSE after

\* part_001: setInterval(..., 60 * 1000), the background sweep
Sweep ==
  /\ impl = "part_001"
  /\ LET changed == SweepChanged(onlineMap, now)
         swept == [k \in DOMAIN onlineMap |-> SweepRecord(onlineMap[k], now)]
     IN /\ onlineMap' = swept
        /\ \E order \in Orders(changed) :
             wrote' = Broadcast([i \in 1..Cardinality(changed) |->
                                   StatusMsg(StatusPayload("part_001", order[i], swept[order[i]], now))])
        /\ saveTimer' = IF changed # {} THEN TRUE ELSE saveTimer
  /\ last' = Op("sweep")
  /\ res' = NoRes
  /\ UNCHANGED <<step, disk, inflight, impl, token, now, sseClients, conn>>

\* POST requests with a header of H and a body of B(hook)
Requests(H, B(_)) ==
  \E hook \in Hooks, header \in H : \E items \in B(hook) : Webhook(hook, header, items)

BadRequests(H, B(_)) ==
  \E hook \in Hooks, header \in H : \E items \in B(hook) :
    WebhookUnauthorized(hook, header, items)

-----------------------------------------------------------------------------
(* Spec: the store under webhook traffic, polls and the timers; no token is *)
(* configured and nobody subscribes to the stream.                          *)

\* a body that is one object: coercePayloadToArray returns [body]
SingleBodies(hook) ==
  {<<item>> : item \in ItemsOf(impl, hook, {" ab12 "}, Timestamps(MaxTime))
                         \cup {Item(undefined, undefinedT, undefined, undefined)}}

Init == InitOver(Impls, {""})

Next ==
  \/ Requests({undefined}, SingleBodies)
  \/ ApiStatus
  \/ Sweep
  \/ SaveTimerFires
  \/ Tick(MaxTime)

Spec == Init /\ [][Next]_vars


-----------------------------------------------------------------------------
(* SpecStream: subscribers of the status stream.  Webhook bodies are arrays *)
(* of up to MaxBatch items for one vehicle, stamped by the server (the      *)
(* items carry no timestamp field); the clock stands still.                 *)

\* the payloads a server-stamped item can carry
StreamPayloads(hook) ==
  CASE hook = "Status" /\ impl # "part_001" -> {[vs |-> "Clear", st |-> undefined]}
    [] hook = "Status" /\ impl = "part_001" -> {[vs |-> undefined, st |-> "Clear"]}
    [] hook = "ShiftChange" /\ impl # "part_001" ->
         {[vs |-> undefined, st |-> "signed on"], [vs |-> undefined, st |-> "signed off"]}
    [] hook = "ShiftChange" /\ impl = "part_001" ->
         {[vs |-> undefined, st |-> "on"], [vs |-> undefined, st |-> "off"]}
    [] OTHER -> {[vs |-> undefined, st |-> undefined]}

\* items for the callsigns of css, and one item without a callsign
StreamItems(hook, css) ==
  {Item(cs, undefinedT, p.vs, p.st) : cs \in css, p \in StreamPayloads(hook)}
    \cup {Item(undefined, undefinedT, undefined, undefined)}

\* a body that is an array of at most MaxBatch items
BatchBodies(hook) == SeqsUpTo(StreamItems(hook, {"AB12"}), MaxBatch)

NextStream ==
  \/ Requests({undefined}, BatchBodies)
  \/ \E c \in Clients : StreamConnect(c)
  \/ \E c \in Clients : PeerDisconnect(c)
  \/ \E c \in Clients : StreamClose(c)
  \/ Heartbeat
  \/ SaveTimerFires

SpecStream == Init /\ [][NextStream]_vars

-----------------------------------------------------------------------------
(* SpecSweep: one subscriber watches two vehicles while the clock runs and  *)
(* the timers fire.  Webhook bodies are single server-stamped items.        *)

SweepBodies(hook) == {<<item>> : item \in StreamItems(hook, {"AB12", "cd34"})}

NextSweep ==
  \/ Requests({undefined}, SweepBodies)
  \/ StreamConnect(1)
  \/ Sweep
  \/ SaveTimerFires
  \/ Tick(MaxTime)

SpecSweep == Init /\ [][NextSweep]_vars


-----------------------------------------------------------------------------
(* Properties checked under Spec *)

\* the items a webhook of Spec can carry
AllItems(hook) == ItemsOf(impl, hook, Callsigns \cup {undefined}, Timestamps(MaxTime))

\* the item carries a parseable timestamp strictly older than the stored
\* updatedAt of its callsign's record
Stale(item, map) ==
  /\ Truthy(item.callsign)
  /\ normKey(item.callsign) \in DOMAIN map
  /\ IsFinite(DateParse(item.timestamp))
  /\ IsFinite(DateParse(map[normKey(item.callsign)].updatedAt))
  /\ DateParse(item.timestamp) < DateParse(map[normKey(item.callsign)].updatedAt)

\* C1: in part_000, each of the three handlers leaves the whole store as it
\* is (no write, no update counted, nothing broadcast) when the item's
\* parseable timestamp is strictly older than the stored updatedAt of its
\* callsign.
C1_StaleEventRejected ==
  impl = "part_000" =>
    \A hook \in Hooks : \A item \in AllItems(hook) :
      Stale(item, onlineMap) =>
        LET r == RunHandler(impl, hook, <<item>>, onlineMap, now)
        IN r.map = onlineMap /\ r.updates = 0 /\ r.out = <<>>

\* a ShiftChange was just answered with zero updates while the stored record
\* is newer than a ShiftChange item the handler rejects
C1_Witness ==
  /\ impl = "part_000"
  /\ last.op = "ShiftChange" /\ res.status = 200 /\ res.updates = 0
  /\ \E item \in AllItems("ShiftChange") :
       /\ Stale(item, onlineMap)
       /\ item.timestamp = 0 /\ onlineMap["AB12"].updatedAt = 2
       /\ RunHandler(impl, "ShiftChange", <<item>>, onlineMap, now).updates = 0

\* C2: in part_000, handling the same item (explicit timestamp) a second
\* time, at the same or a later clock reading, gives the store that handling
\* it once gave, for each handler and every reachable store.
C2_Idempotent ==
  impl = "part_000" =>
    \A hook \in Hooks : \A item \in AllItems(hook) :
      item.timestamp # undefinedT =>
        LET once == RunHandler(impl, hook, <<item>>, onlineMap, now).map
        IN \A later \in now..MaxTime :
             RunHandler(impl, hook, <<item>>, once, later).map = once

\* a Status track was accepted on a record whose ping is older than the
\* track, and handling the track again is accepted again
C2_Witness ==
  /\ impl = "part_000"
  /\ last.op = "Status" /\ res.updates = 1
  /\ "AB12" \in DOMAIN onlineMap
  /\ onlineMap["AB12"].lastPingAt = 0 /\ onlineMap["AB12"].updatedAt = 1
  /\ \E item \in AllItems("Status") :
       /\ item.timestamp = 1
       /\ RunHandler(impl, "Status", <<item>>, onlineMap, now).updates = 1

\* C3: in server.js and part_000, a HackneyLocation request leaves a record
\* whose explicitOnline is false with explicitOnline false and derived
\* offline, whether or not it writes the record.
C3_StickyOffline ==
  [][(impl \in {"server", "part_000"} /\ last'.op = "HackneyLocation") =>
       \A k \in DOMAIN onlineMap :
         onlineMap[k].explicitOnline = "false" =>
           /\ onlineMap'[k].explicitOnline = "false"
           /\ ~DerivedOnline(impl, onlineMap'[k], now')]_vars

\* a ping was just accepted (its timestamp is the record's lastPingAt and
\* updatedAt) on a record that is explicitly offline
C3_Witness ==
  /\ impl \in {"server", "part_000"}
  /\ last.op = "HackneyLocation" /\ res.updates = 1
  /\ "AB12" \in DOMAIN onlineMap
  /\ onlineMap["AB12"].explicitOnline = "false"
  /\ onlineMap["AB12"].lastPingAt = now /\ onlineMap["AB12"].updatedAt = now

\* part_000: the record carries a not-working / off-shift status
P0_notWorking(rec) ==
  \/ rec.driverStatusCode = "NotWorking"
  \/ IncludesAny(LowerOf(Or(rec.driverStatusLabel, rec.driverStatus)), NotWorkingWords)

\* C4: in server.js and part_000, for a stored record with explicitOnline
\* true and a lastPingAt (and, in part_000, no not-working status),
\* computeOnline at any clock reading t is true exactly when
\* t - lastPingAt <= timeout.
C4_TimeoutDerivation ==
  impl \in {"server", "part_000"} =>
    \A k \in DOMAIN onlineMap :
      LET rec == onlineMap[k] IN
      (/\ rec.explicitOnline = "true"
       /\ IsFinite(DateParse(rec.lastPingAt))
       /\ impl = "part_000" => ~P0_notWorking(rec)) =>
        \A t \in 0..(MaxTime + OFFLINE_TIMEOUT_MS + 1) :
          DerivedOnline(impl, rec, t) = (t - DateParse(rec.lastPingAt) <= OFFLINE_TIMEOUT_MS)

\* a poll reports online for a record whose age is exactly the timeout
C4_Witness ==
  /\ impl \in {"server", "part_000"}
  /\ last.op = "api/status"
  /\ \E k \in DOMAIN onlineMap :
       /\ onlineMap[k].explicitOnline = "true"
       /\ now - DateParse(onlineMap[k].lastPingAt) = OFFLINE_TIMEOUT_MS
       /\ \E e \in res.data : e.callsign = k /\ e.online

\* C5: in part_000, no step removes a record or moves its updatedAt to an
\* earlier instant.
C5_UpdatedAtMonotonic ==
  [][impl = "part_000" =>
       \A k \in DOMAIN onlineMap :
         /\ k \in DOMAIN onlineMap'
         /\ IsFinite(DateParse(onlineMap'[k].updatedAt))
         /\ DateParse(onlineMap'[k].updatedAt) >= DateParse(onlineMap[k].updatedAt)]_vars

\* an event stamped ahead of the clock was accepted after an earlier one
C5_Witness ==
  /\ impl = "part_000"
  /\ res.updates = 1
  /\ "AB12" \in DOMAIN onlineMap
  /\ onlineMap["AB12"].updatedAt = 2 /\ onlineMap["AB12"].lastPingAt = 0
  /\ now = 1

-----------------------------------------------------------------------------
(* SpecScenario: part_000 receives the scripted trace                       *)
(*   ping " ab12 " at T0, Status at T0+1s, ShiftChange "signed off" at      *)
(*   T0+2s, a late ping stamped T0+1.5s, then a poll at T0+3s.              *)
(* The five instants are numbered in their order; the server's clock runs   *)
(* freely between the requests, the items carry their own timestamps.       *)

ScenarioTimes == [T0 |-> 0, Status |-> 1, LatePing |-> 2, ShiftChange |-> 3, Poll |-> 4]

\* the requests of the trace, in the order they are sent; the Status track
\* carries VehicleStatus vs
ScenarioRequests(vs) ==
  << [hook |-> "HackneyLocation", item |-> Item(" ab12 ", ScenarioTimes.T0, undefined, undefined)],
     [hook |-> "Status",          item |-> Item(" ab12 ", ScenarioTimes.Status, vs, undefined)],
     [hook |-> "ShiftChange",     item |-> Item(" ab12 ", ScenarioTimes.ShiftChange, undefined, "signed off")],
     [hook |-> "HackneyLocation", item |-> Item(" ab12 ", ScenarioTimes.LatePing, undefined, undefined)] >>

ScenarioLen == Len(ScenarioRequests(undefined))

\* the next request of the trace is handled
ScenarioRequest ==
  /\ step < ScenarioLen
  /\ \E vs \in VehicleStatuses :
       LET rq == ScenarioRequests(vs)[step + 1]
       IN HandleWebhook(rq.hook, undefined, <<rq.item>>)
  /\ step' = step + 1
  /\ UNCHANGED <<disk, inflight>>

\* the poll at T0+3s, after the trace
ScenarioPoll ==
  /\ step = ScenarioLen
  /\ now = ScenarioTimes.Poll
  /\ HandleApiStatus
  /\ step' = step + 1
  /\ UNCHANGED <<disk, inflight>>

InitScenario == InitOver({"part_000"}, {""})

NextScenario ==
  \/ ScenarioRequest
  \/ ScenarioPoll
  \/ SaveTimerFires
  \/ Tick(ScenarioTimes.Poll)

SpecScenario == InitScenario /\ [][NextScenario]_vars

\* C6: in part_000, after the four requests of the trace the store holds the
\* single record AB12 with explicitOnline false and lastPingAt cleared; the
\* late ping is answered with zero updates, broadcasts nothing and leaves the
\* store as it was; and the poll at T0+3s reports AB12 with online = false.
C6_Scenario ==
  /\ [](step >= ScenarioLen =>
          /\ DOMAIN onlineMap = {"AB12"}
          /\ onlineMap["AB12"].explicitOnline = "false"
          /\ onlineMap["AB12"].lastPingAt = nullT
          /\ onlineMap["AB12"].updatedAt = ScenarioTimes.ShiftChange)
  /\ []((step = ScenarioLen + 1 /\ last.op = "api/status") =>
          /\ Cardinality(res.data) = 1
          /\ \A e \in res.data : e.callsign = "AB12" /\ e.online = FALSE)
  /\ [][(step = ScenarioLen - 1 /\ step' = ScenarioLen) =>
          /\ onlineMap' = onlineMap
          /\ res'.status = 200 /\ res'.updates = 0
          /\ saveTimer' = saveTimer]_vars

\* the poll at T0+3s has been answered after the whole trace
C6_Witness ==
  /\ step = ScenarioLen + 1
  /\ last.op = "api/status"
  /\ now = ScenarioTimes.Poll
  /\ \E e \in res.data : e.callsign = "AB12" /\ ~e.online /\ e.updatedAt = ScenarioTimes.ShiftChange

-----------------------------------------------------------------------------
(* SpecAuth: webhook requests with and without the configured token *)

\* bodies of one server-stamped item
AuthBodies(hook) ==
  {<<item>> : item \in ItemsOf(impl, hook, {"AB12"}, {undefinedT})}

InitAuth == InitOver(Impls, {"", Secret})

NextAuth ==
  \/ Requests(Headers, AuthBodies)
  \/ BadRequests(Headers, AuthBodies)
  \/ \E c \in Clients : StreamConnect(c)
  \/ SaveTimerFires
  \/ Tick(MaxTime)

SpecAuth == InitAuth /\ [][NextAuth]_vars

\* C7: with a token configured, a webhook request whose x-webhook-token
\* header is absent or different is answered 401, leaves the store as it
\* was, writes nothing to any subscriber and does not arm the save timer.
C7_UnauthorizedNoEffect ==
  [][(token # "" /\ last'.op \in Hooks /\ last'.header # token) =>
       /\ res'.status = 401 /\ ~res'.ok
       /\ onlineMap' = onlineMap
       /\ \A c \in Clients : wrote'[c] = <<>>
       /\ saveTimer' = saveTimer
       /\ sseClients' = sseClients]_vars

\* a request without the header was just refused while a subscriber is
\* listening, the store holds a record and no save is pending
C7_Witness ==
  /\ token = Secret
  /\ last.op \in Hooks /\ last.header = undefined
  /\ res.status = 401
  /\ sseClients # {} /\ \E c \in sseClients : conn[c] = "open"
  /\ "AB12" \in DOMAIN onlineMap
  /\ ~saveTimer

-----------------------------------------------------------------------------
(* Properties checked under SpecSweep and SpecStream *)

\* the subscribers a write reaches
Listening == {c \in sseClients : conn[c] = "open"}

\* the record's ping is older than the timeout of part_001 (or missing)
P1_timedOut(rec, t) ==
  \/ ~TruthyT(rec.lastPingAt)
  \/ t - DateParse(rec.lastPingAt) > OFFLINE_AFTER_MS

\* the status events of msgs that are about callsign k
EventsAbout(msgs, k) ==
  SelectSeq(msgs, LAMBDA m : m.event = "status" /\ m.payload.callsign = k)

\* C8: in part_001, a sweep sends every listening subscriber exactly one
\* status event, carrying online = false, for each record that was online
\* and whose ping has timed out, and turns that record offline; for a record
\* that is already offline, or not timed out, it sends nothing.
C8_SweepBroadcastsOnce ==
  [][(impl = "part_001" /\ last'.op = "sweep") =>
       \A k \in DOMAIN onlineMap :
         LET due == onlineMap[k].online = "true" /\ P1_timedOut(onlineMap[k], now)
         IN /\ due => onlineMap'[k].online = "false"
            /\ onlineMap[k].online = "false" => onlineMap'[k] = onlineMap[k]
            /\ \A c \in Listening :
                 LET about == EventsAbout(wrote'[c], k)
                 IN IF due THEN Len(about) = 1 /\ about[1].payload.online = FALSE
                    ELSE about = <<>>]_vars

\* a sweep has just told a listening subscriber that AB12 went offline
C8_Witness ==
  /\ impl = "part_001"
  /\ last.op = "sweep"
  /\ "AB12" \in DOMAIN onlineMap
  /\ onlineMap["AB12"].online = "false"
  /\ now - onlineMap["AB12"].lastPingAt > OFFLINE_AFTER_MS
  /\ \E c \in Listening :
       /\ Len(wrote[c]) = 1
       /\ wrote[c][1].event = "status"
       /\ wrote[c][1].payload.callsign = "AB12"
       /\ ~wrote[c][1].payload.online

\* C9: the snapshot written to a connecting subscriber has exactly the
\* entries that GET /api/status builds from the same store at the same
\* instant.
C9_SnapshotEqualsPoll ==
  [][last'.op = "api/status/stream" =>
       \E c \in sseClients' \ sseClients :
         /\ Len(wrote'[c]) = 1
         /\ wrote'[c][1].event = "snapshot"
         /\ wrote'[c][1].entries = ApiStatusData(impl, onlineMap, now)
         /\ onlineMap' = onlineMap /\ now' = now]_vars

\* a subscriber has just connected to a server (server.js or part_000) whose
\* one record is explicitly online with a timed-out ping, and its snapshot
\* reports the record offline
C9_Witness ==
  /\ impl \in {"server", "part_000"}
  /\ last.op = "api/status/stream"
  /\ "AB12" \in DOMAIN onlineMap
  /\ onlineMap["AB12"].explicitOnline = "true"
  /\ now - onlineMap["AB12"].lastPingAt > OFFLINE_TIMEOUT_MS
  /\ \E c \in Listening :
       /\ Len(wrote[c]) = 1
       /\ \E e \in wrote[c][1].entries : e.callsign = "AB12" /\ ~e.online

\* C10: a connection receives nothing before it subscribes; the step that
\* subscribes it writes it the snapshot of the store and nothing else; and a
\* webhook request delivers to every listening subscriber one status event
\* per item it accepted, the events about a callsign ending with the payload
\* of the record it stored, while a subscriber whose connection has gone
\* receives nothing.
C10_SnapshotThenEveryEvent ==
  [][\A c \in Clients :
       /\ (c \notin sseClients /\ c \notin sseClients') => wrote'[c] = <<>>
       /\ (c \notin sseClients /\ c \in sseClients') =>
            /\ wrote'[c] = <<SnapshotMsg(SnapshotData(impl, onlineMap', now'))>>
            /\ onlineMap' = onlineMap
       /\ (c \in sseClients /\ conn[c] # "open") => wrote'[c] = <<>>
       /\ (c \in Listening /\ last'.op \in Hooks /\ res'.status = 200) =>
            /\ Len(wrote'[c]) = res'.updates
            /\ \A i \in 1..Len(wrote'[c]) :
                 /\ wrote'[c][i].event = "status"
                 /\ wrote'[c][i].payload.callsign \in DOMAIN onlineMap'
            /\ \A k \in DOMAIN onlineMap' :
                 LET about == EventsAbout(wrote'[c], k)
                 IN about # <<>> =>
                      about[Len(about)].payload = StatusPayload(impl, k, onlineMap'[k], now')]_vars

\* a webhook body of two accepted items has just reached a listening
\* subscriber as two different status events, in the order of the items,
\* while a connection that never subscribed received nothing
C10_Witness ==
  /\ last.op = "ShiftChange" /\ res.updates = 2
  /\ \E c \in Listening :
       /\ Len(wrote[c]) = 2
       /\ wrote[c][1].payload.online /\ ~wrote[c][2].payload.online
       /\ wrote[c][2].payload = StatusPayload(impl, "AB12", onlineMap["AB12"], now)
  /\ \E c \in Clients : conn[c] = "none" /\ wrote[c] = <<>>

-----------------------------------------------------------------------------
(* Failing subscribers, under SpecStream *)

\* the subscribers whose peer is gone: res.write on them throws or is discarded
Failing == {c \in sseClients : conn[c] = "broken"}

\* C11: while a subscriber's writes fail, a webhook request still has the
\* outcome of its handler (the store it leaves, ok with the update count) and
\* every listening subscriber still receives all of its status events; a
\* heartbeat still reaches every listening subscriber.
C11_WriteFailureIsolated ==
  [][Failing # {} =>
       /\ last'.op \in Hooks =>
            \E items \in BatchBodies(last'.op) :
              LET r == RunHandler(impl, last'.op, items, onlineMap, now)
              IN /\ onlineMap' = r.map
                 /\ res' = [status |-> 200, ok |-> TRUE, updates |-> r.updates, data |-> {}]
                 /\ \A c \in Listening : wrote'[c] = r.out
       /\ last'.op = "heartbeat" =>
            \A c \in Listening : wrote'[c] = <<HeartbeatMsg>>]_vars

\* a webhook has just stored a record and reached a listening subscriber
\* although a subscriber registered before it has a failing connection
C11_Witness ==
  /\ last.op \in Hooks /\ res.ok /\ res.updates >= 1
  /\ "AB12" \in DOMAIN onlineMap
  /\ \E b \in Failing : \E c \in Listening :
       /\ b < c
       /\ Len(wrote[c]) = res.updates
       /\ wrote[b] = <<>>

\* C12: a subscriber on which a write fails during a broadcast or a
\* heartbeat is removed from sseClients by that step.
C12_FailedSubscriberDropped ==
  [][\A c \in Failing :
       (last'.op = "heartbeat" \/ (last'.op \in Hooks /\ res'.updates > 0))
         => c \notin sseClients']_vars

-----------------------------------------------------------------------------
(* SpecSave: saveStatusToDisk and STATUS_FILE in server.js and part_000.    *)
(* disk.timers counts the pending timeouts, disk.age the time since the     *)
(* last call of saveStatusToDisk in steps of SAVE_DELAY-th parts of the     *)
(* 500 ms, disk.calls the calls since the timer was last idle, disk.file    *)
(* the text of the file (<<>> while there is none), disk.failed whether     *)
(* the last writeFileSync threw.                                            *)

SAVE_DELAY == 2      \* the 500 ms of setTimeout
MaxBurst == 3        \* calls of saveStatusToDisk while a timeout is pending

\* faulty variant of saveStatusToDisk: a call made while a timeout is pending
\* leaves that timeout running (the delay is counted from the first call)
saveStatusToDisk_KeepsTimer(d) ==
  IF d.timers > 0 THEN [d EXCEPT !.calls = @ + 1]
  ELSE [d EXCEPT !.timers = 1, !.age = 0, !.calls = 1]

\* faulty variant of saveStatusToDisk: the pending timeout is not cleared
saveStatusToDisk_NoClear(d) ==
  [d EXCEPT !.timers = @ + 1, !.age = 0,
            !.calls = IF d.timers = 0 THEN 1 ELSE @ + 1]

\* saveStatusToDisk(): clearTimeout(saveTimer); saveTimer = setTimeout(..., 500)
saveStatusToDisk(d) ==
  [d EXCEPT !.timers = (IF @ > 0 THEN @ - 1 ELSE 0) + 1, !.age = 0,
            !.calls = IF d.timers = 0 THEN 1 ELSE @ + 1]

RecordFields == DOMAIN EmptyObj

\* faulty variant of JSON.stringify: a null field is left out like an
\* undefined one
JSONstringify_DropsNull(map) ==
  [k \in DOMAIN map |->
     [f \in {g \in RecordFields :
                /\ map[k][g] # EmptyObj[g]
                /\ IF g \in {"lastPingAt", "updatedAt", "lastLocationAt", "lastStatusAt"}
                     THEN map[k][g] # nullT ELSE map[k][g] # null} |-> map[k][f]]]

\* JSON.stringify(Array.from(onlineMap.entries())): the text holds, for
\* every key, the fields of the record that are not undefined
JSONstringify(map) ==
  [k \in DOMAIN map |->
     [f \in {g \in RecordFields : map[k][g] # EmptyObj[g]} |-> map[k][f]]]

\* new Map(JSON.parse(text)): a field the text does not hold reads undefined
JSONparse(text) ==
  [k \in DOMAIN text |->
     [f \in RecordFields |-> IF f \in DOMAIN text[k] THEN text[k][f] ELSE EmptyObj[f]]]

\* loadStatusFromDisk(): the store after start-up, from the file (<<>> if
\* there is none); readable is FALSE when reading or parsing it throws
loadStatusFromDisk(file, readable) ==
  IF file = <<>> \/ ~readable THEN [k \in {} |-> EmptyObj] ELSE JSONparse(file[1])

\* faulty variant of the timeout's callback: the exception of writeFileSync
\* is not caught, the process ends and restarts with the store of the file
SaveCallback_Uncaught(map, d, ok) ==
  IF ok THEN [map |-> map, disk |-> [d EXCEPT !.file = <<JSONstringify(map)>>, !.timers = @ - 1, !.failed = FALSE]]
  ELSE [map |-> loadStatusFromDisk(d.file, TRUE),
        disk |-> [d EXCEPT !.timers = @ - 1, !.failed = TRUE]]

\* the timeout's callback: try { writeFileSync(entries of onlineMap) } catch { warn }
SaveCallback(map, d, ok) ==
  IF ok THEN [map |-> map, disk |-> [d EXCEPT !.file = <<JSONstringify(map)>>, !.timers = @ - 1, !.failed = FALSE]]
  ELSE [map |-> map, disk |-> [d EXCEPT !.timers = @ - 1, !.failed = TRUE]]

\* bodies of one server-stamped item, with or without a callsign
SaveBodies(hook) == {<<item>> : item \in StreamItems(hook, {"AB12"})}

\* POST /webhook/<hook>, with the timeout that saveStatusToDisk arms
SaveWebhook(hook, items) ==
  /\ disk.timers = 0 \/ disk.calls < MaxBurst
  /\ HandleWebhook(hook, undefined, items)
  /\ disk' = IF res'.updates > 0 THEN saveStatusToDisk(disk) ELSE disk
  /\ UNCHANGED <<step, inflight>>

\* part of the 500 ms passes
TimerAges ==
  /\ disk.timers > 0
  /\ disk.age < SAVE_DELAY
  /\ disk' = [disk EXCEPT !.age = @ + 1]
  /\ wrote' = Silent
  /\ last' = Op("wait")
  /\ res' = NoRes
  /\ UNCHANGED <<step, inflight, impl, token, now, onlineMap, sseClients, conn, saveTimer>>

\* the timeout fires 500 ms after the last call; writeFileSync succeeds or throws
SaveTimerCompletes(ok) ==
  /\ disk.timers > 0
  /\ disk.age = SAVE_DELAY
  /\ \E r \in {SaveCallback(onlineMap, disk, ok)} :
       /\ onlineMap' = r.map
       /\ disk' = r.disk
       /\ saveTimer' = (r.disk.timers > 0)
  /\ wrote' = Silent
  /\ last' = Op(IF ok THEN "save" ELSE "save-failed")
  /\ res' = NoRes
  /\ UNCHANGED <<step, inflight, impl, token, now, sseClients, conn>>

InitSave == InitOver({"server", "part_000"}, {""})

NextSave ==
  \/ \E hook \in Hooks : \E items \in SaveBodies(hook) : SaveWebhook(hook, items)
  \/ TimerAges
  \/ \E ok \in BOOLEAN : SaveTimerCompletes(ok)
  \/ ApiStatus
  \/ Tick(MaxTime)

SpecSave == InitSave /\ [][NextSave]_vars

\* C13: at most one timeout is pending; a webhook that calls saveStatusToDisk
\* leaves exactly one pending, counted from zero again, and writes nothing
\* itself; the file only changes when the timeout fires a full delay after
\* the last call, and then it holds the store as it is at that moment.
C13_DebouncedSave ==
  /\ [](disk.timers <= 1 /\ (saveTimer <=> disk.timers = 1))
  /\ [][(last'.op \in Hooks /\ res'.updates > 0) =>
          disk'.timers = 1 /\ disk'.age = 0 /\ disk'.file = disk.file]_vars
  /\ [][disk'.file # disk.file =>
          /\ last'.op = "save"
          /\ disk.timers = 1 /\ disk.age = SAVE_DELAY
          /\ disk'.file = <<JSONstringify(onlineMap)>> /\ onlineMap' = onlineMap
          /\ disk'.timers = 0]_vars

\* one write has just been made for a burst of several calls, and the file
\* holds the store
C13_Witness ==
  /\ last.op = "save"
  /\ disk.calls >= 2
  /\ disk.timers = 0
  /\ "AB12" \in DOMAIN onlineMap
  /\ disk.file = <<JSONstringify(onlineMap)>>

\* C20: a webhook step answers without touching the file; a failed write
\* leaves the store, the subscribers and the file as they were; and after a
\* failed write an accepted webhook is answered ok and arms the timeout again.
C20_SaveFailureHarmless ==
  /\ [][last'.op \in Hooks => disk'.file = disk.file /\ res'.status = 200]_vars
  /\ [][last'.op = "save-failed" =>
          /\ onlineMap' = onlineMap
          /\ sseClients' = sseClients
          /\ disk'.file = disk.file
          /\ disk'.timers = 0]_vars
  /\ [][(disk.failed /\ last'.op \in Hooks /\ res'.updates > 0) =>
          res'.ok /\ disk'.timers = 1 /\ saveTimer']_vars

\* after a failed first write, a webhook was accepted and its save is pending
C20_Witness ==
  /\ disk.failed /\ disk.file = <<>>
  /\ last.op \in Hooks /\ res.ok /\ res.updates = 1
  /\ disk.timers = 1
  /\ "AB12" \in DOMAIN onlineMap

-----------------------------------------------------------------------------
(* SpecBatch: part_000 under requests that are in flight at the same time.  *)
(* A request is received (its body parsed) in one step and its handler, a   *)
(* synchronous function, runs in a later step; requests on different routes *)
(* are handled in either order.  The items carry their own timestamps.      *)

BatchHooks == {"HackneyLocation", "Status"}

\* the instants the items are stamped with
BatchTimes == {0, MaxTime}

\* items for AB12 stamped by the sender, and one item without a callsign
BatchItems(hook) ==
  {Item("AB12", ts, p.vs, p.st) : ts \in BatchTimes, p \in StreamPayloads(hook)}
    \cup {Item(undefined, undefinedT, undefined, undefined)}

\* a body that is an array of 1..MaxBatch items (an empty array changes nothing)
InflightBodies(hook) == SeqsUpTo(BatchItems(hook), MaxBatch) \ {<<>>}

\* express.json() has parsed the body of a request; its handler has not run
\* (at most MaxBatch + 1 items are in flight at a time)
Receive(hook, items) ==
  /\ inflight[hook] = <<>>
  /\ \A h \in BatchHooks \ {hook} : Len(inflight[h]) + Len(items) <= MaxBatch + 1
  /\ inflight' = [inflight EXCEPT ![hook] = items]
  /\ wrote' = Silent
  /\ last' = Op("received")
  /\ res' = NoRes
  /\ UNCHANGED <<step, disk, impl, token, now, onlineMap, sseClients, conn, saveTimer>>

\* the handler of a received request runs to its end
Dispatch(hook) ==
  /\ inflight[hook] # <<>>
  /\ HandleWebhook(hook, undefined, inflight[hook])
  /\ inflight' = [inflight EXCEPT ![hook] = <<>>]
  /\ step' = Len(inflight[hook])
  /\ UNCHANGED disk

\* the store after the items were sent one request each, in their order
RECURSIVE OneByOne(_, _, _, _, _)
OneByOne(im, hook, items, map, t) ==
  IF items = <<>> THEN Acc(map, 0, <<>>, FALSE)
  ELSE LET first == RunHandler(im, hook, <<Head(items)>>, map, t)
           rest == OneByOne(im, hook, Tail(items), first.map, t)
       IN Acc(rest.map, first.updates + rest.updates, first.out \o rest.out, FALSE)

InitBatch == InitOver({"part_000"}, {""})

NextBatch ==
  \/ \E hook \in BatchHooks : \E items \in InflightBodies(hook) : Receive(hook, items)
  \/ \E hook \in BatchHooks : Dispatch(hook)
  \/ StreamConnect(1)
  \/ ApiStatus
  \/ SaveTimerFires

SpecBatch == InitBatch /\ [][NextBatch]_vars

\* C14: the store only changes by the handler of one received request running
\* whole, and then it is the store that results from checking and writing
\* the request's items one after the other; every stored record is a whole
\* merge (its label fields agree and it has an updatedAt), and a poll
\* returns the stored records.
C14_CheckAndWriteAtomic ==
  /\ [][onlineMap' # onlineMap =>
          \E hook \in BatchHooks :
            /\ inflight[hook] # <<>>
            /\ inflight' = [inflight EXCEPT ![hook] = <<>>]
            /\ last'.op = hook
            /\ onlineMap' = OneByOne(impl, hook, inflight[hook], onlineMap, now).map]_vars
  /\ [](\A k \in DOMAIN onlineMap :
          /\ onlineMap[k].driverStatus = onlineMap[k].driverStatusLabel
          /\ onlineMap[k].updatedAt \in BatchTimes
          /\ onlineMap[k].lastPingAt \in BatchTimes)
  /\ [](last.op = "api/status" => res.data = ApiStatusData(impl, onlineMap, now))

\* a ping was handled while a Status request holding an older item for the
\* same callsign was in flight
C14_Witness ==
  /\ last.op = "HackneyLocation" /\ res.updates >= 1
  /\ "AB12" \in DOMAIN onlineMap
  /\ inflight["Status"] # <<>>
  /\ \E i \in 1..Len(inflight["Status"]) :
       /\ inflight["Status"][i].callsign = "AB12"
       /\ inflight["Status"][i].timestamp < onlineMap["AB12"].updatedAt

-----------------------------------------------------------------------------
(* Spec: the merge rules of the Status and ShiftChange handlers *)

\* C15: in server.js and part_000 a Status item that is written leaves its
\* record with explicitOnline true, whatever the record held before.
C15_StatusSetsExplicitOnline ==
  [][(impl \in {"server", "part_000"} /\ last'.op = "Status" /\ res'.updates = 1) =>
       /\ "AB12" \in DOMAIN onlineMap'
       /\ onlineMap'["AB12"].explicitOnline = "true"]_vars

\* a Status item was written over a record that a sign-off had marked
\* offline: the record still carries the sign-off's label
C15_Witness ==
  /\ impl \in {"server", "part_000"}
  /\ last.op = "Status" /\ res.updates = 1
  /\ "AB12" \in DOMAIN onlineMap
  /\ onlineMap["AB12"].driverStatus \in {"signed off", "Off Shift"}
  /\ onlineMap["AB12"].explicitOnline = "true"

\* the ShiftChange items of a revision with the status st
ShiftItems(im, st) ==
  {item \in ItemsOf(im, "ShiftChange", {" ab12 "}, Timestamps(MaxTime)) : item.status = st}

\* the step is the ShiftChange request of item, and the item was written
WroteShiftItem(item) ==
  /\ last'.op = "ShiftChange" /\ res'.updates = 1
  /\ onlineMap' = RunHandler(impl, "ShiftChange", <<item>>, onlineMap, now).map
  /\ RunHandler(impl, "ShiftChange", <<item>>, onlineMap, now).updates = 1

\* C16: in part_000 a written sign-off leaves explicitOnline false and
\* lastPingAt null; a written sign-on leaves explicitOnline true and
\* lastPingAt at the item's timestamp (the time of handling if it has none).
C16_ShiftResolvesPing ==
  [][impl = "part_000" =>
       /\ \A item \in ShiftItems(impl, "signed off") : WroteShiftItem(item) =>
            /\ onlineMap'["AB12"].explicitOnline = "false"
            /\ onlineMap'["AB12"].lastPingAt = nullT
       /\ \A item \in ShiftItems(impl, "signed on") : WroteShiftItem(item) =>
            /\ onlineMap'["AB12"].explicitOnline = "true"
            /\ onlineMap'["AB12"].lastPingAt =
                 (IF item.timestamp = undefinedT THEN now ELSE item.timestamp)]_vars

\* a sign-off was written over a record that a Status item had given a
\* lastPingAt
C16_Witness ==
  /\ impl = "part_000"
  /\ last.op = "ShiftChange" /\ res.updates = 1
  /\ "AB12" \in DOMAIN onlineMap
  /\ onlineMap["AB12"].driverStatusCode = "Clear"
  /\ onlineMap["AB12"].explicitOnline = "false"
  /\ onlineMap["AB12"].lastPingAt = nullT

\* C17: in server.js and part_000 a written ShiftChange item whose status
\* says neither on nor off keeps explicitOnline (true, false, or unknown:
\* undefined or null before, null after), sets updatedAt to the item's
\* timestamp and the label to the item's status.
C17_NullInferenceKeepsExplicit ==
  [][(impl \in {"server", "part_000"}) =>
       /\ \A item \in ShiftItems(impl, "paused") : WroteShiftItem(item) =>
         (LET before == MapGet(onlineMap, "AB12").explicitOnline
              after == onlineMap'["AB12"]
          IN /\ after.explicitOnline = (IF before \in {"true", "false"} THEN before ELSE null)
             /\ after.updatedAt = (IF item.timestamp = undefinedT THEN now ELSE item.timestamp)
             /\ after.driverStatus = "paused")]_vars

\* a pause was written over a record that is explicitly offline
C17_Witness ==
  /\ impl \in {"server", "part_000"}
  /\ last.op = "ShiftChange" /\ res.updates = 1
  /\ "AB12" \in DOMAIN onlineMap
  /\ onlineMap["AB12"].driverStatus = "paused"
  /\ onlineMap["AB12"].explicitOnline = "false"

-----------------------------------------------------------------------------
(* SpecBatch: what a request of several items answers and broadcasts *)

\* the step is the handler of the request received on hook
Handled(hook) ==
  /\ inflight[hook] # <<>>
  /\ inflight'[hook] = <<>>
  /\ last'.op = hook

\* C18: in part_000 every handled request is answered 200 ok with updates
\* the number of its items that were written; an item without a callsign or
\* older than the stored record adds nothing to the store, the count or the
\* stream, and the items after it are still handled; a subscriber receives
\* one status event per written item; the save timer is armed when updates
\* is positive and untouched when it is zero.
C18_UpdatesCountWrites ==
  [][\A hook \in BatchHooks : Handled(hook) =>
       LET items == inflight[hook]
           seq == OneByOne(impl, hook, items, onlineMap, now)
           before(i) == OneByOne(impl, hook, SubSeq(items, 1, i - 1), onlineMap, now).map
           alone(i) == RunHandler(impl, hook, <<items[i]>>, before(i), now)
       IN /\ res'.status = 200 /\ res'.ok
          /\ res'.updates = Cardinality({i \in 1..Len(items) : alone(i).updates = 1})
          /\ res'.updates = seq.updates
          /\ onlineMap' = seq.map
          /\ \A i \in 1..Len(items) :
               (~Truthy(items[i].callsign) \/ Stale(items[i], before(i))) =>
                 alone(i).map = before(i) /\ alone(i).updates = 0 /\ alone(i).out = <<>>
          /\ \A c \in Listening : wrote'[c] = seq.out /\ Len(wrote'[c]) = res'.updates
          /\ saveTimer' = (IF res'.updates > 0 THEN TRUE ELSE saveTimer)]_vars

\* a request of two items was answered with one update, the subscriber got
\* one event and the save timer is armed
C18_Witness ==
  /\ last.op \in BatchHooks
  /\ step = MaxBatch
  /\ res.ok /\ res.updates = 1
  /\ conn[1] = "open" /\ Len(wrote[1]) = 1
  /\ saveTimer

-----------------------------------------------------------------------------
(* Spec: the keys of the store *)

\* the item with its callsign spelt cs
Respelt(item, cs) == [item EXCEPT !.callsign = cs]

\* C19: the only key the store ever holds for the callsigns " ab12 " and
\* "AB12" is "AB12"; a request carrying one spelling has the same effect as
\* the request carrying the other; a request whose item has no callsign
\* leaves the store as it is.
C19_OneRecordPerCallsign ==
  /\ DOMAIN onlineMap \subseteq {"AB12"}
  /\ \A hook \in Hooks : \A item \in ItemsOf(impl, hook, {"AB12"}, Timestamps(MaxTime)) :
       LET upper == RunHandler(impl, hook, <<item>>, onlineMap, now)
           padded == RunHandler(impl, hook, <<Respelt(item, " ab12 ")>>, onlineMap, now)
           none == RunHandler(impl, hook, <<Respelt(item, undefined)>>, onlineMap, now)
       IN /\ padded = upper
          /\ DOMAIN upper.map \subseteq {"AB12"}
          /\ none.map = onlineMap /\ none.updates = 0

\* the record AB12 was created by an item spelt " ab12 " and has since been
\* updated by another
C19_Witness ==
  /\ DOMAIN onlineMap = {"AB12"}
  /\ last.op \in Hooks /\ res.updates = 1
  /\ onlineMap["AB12"].updatedAt >= 1
  /\ now >= 1

-----------------------------------------------------------------------------
(* Spec: events that are not newer than the stored record *)

\* the item carries a parseable timestamp that is not later than the stored
\* updatedAt of its callsign's record
NotNewer(item, map) ==
  /\ Truthy(item.callsign)
  /\ normKey(item.callsign) \in DOMAIN map
  /\ IsFinite(DateParse(item.timestamp))
  /\ IsFinite(DateParse(map[normKey(item.callsign)].updatedAt))
  /\ DateParse(item.timestamp) <= DateParse(map[normKey(item.callsign)].updatedAt)

\* the fields of a record that an event may set
EventFields(rec) ==
  <<rec.lastPingAt, rec.updatedAt, rec.driverStatusCode, rec.driverStatusLabel,
    rec.explicitOnline>>

\* C21: in part_000 an item whose timestamp is not later than the stored
\* updatedAt of its callsign (equal included) leaves lastPingAt, updatedAt,
\* driverStatusCode, driverStatusLabel and explicitOnline of the record as
\* they are, for each of the three handlers.
C21_NotNewerEventRejected ==
  impl = "part_000" =>
    \A hook \in Hooks : \A item \in AllItems(hook) :
      NotNewer(item, onlineMap) =>
        LET r == RunHandler(impl, hook, <<item>>, onlineMap, now)
            k == normKey(item.callsign)
        IN EventFields(r.map[k]) = EventFields(onlineMap[k])

-----------------------------------------------------------------------------
(* Spec: the ping of a Status event *)

\* the Status items of a revision
StatusItems(im) == ItemsOf(im, "Status", {" ab12 "}, Timestamps(MaxTime))

\* the step is the Status request of item, and the item was written
WroteStatusItem(item) ==
  /\ last'.op = "Status" /\ res'.updates = 1
  /\ onlineMap' = RunHandler(impl, "Status", <<item>>, onlineMap, now).map
  /\ RunHandler(impl, "Status", <<item>>, onlineMap, now).updates = 1

\* C22: in part_000 a written Status item leaves lastPingAt at the item's
\* timestamp (the time of handling if it has none), so that the record is
\* derived online at the moment the item is written.
C22_StatusRefreshesPing ==
  [][(impl = "part_000") =>
       /\ \A item \in StatusItems(impl) : WroteStatusItem(item) =>
            /\ onlineMap'["AB12"].lastPingAt =
                 (IF item.timestamp = undefinedT THEN now ELSE item.timestamp)
            /\ (item.timestamp = undefinedT /\ item.VehicleStatus = "Clear") =>
                 P0_computeOnline(onlineMap'["AB12"], now)]_vars

-----------------------------------------------------------------------------
(* inferExplicitOnlineFromShift on statuses that say both *)

\* free-text statuses that contain an online keyword and an offline keyword
BothWays == {"Signed on after logged out", "shift end, start tomorrow"}

\* SpecShift: part_000 under ShiftChange items of every status, those of
\* BothWays included, next to server-stamped pings and Status items
ShiftBodies(hook) ==
  IF hook = "ShiftChange"
    THEN {<<Item(" ab12 ", ts, undefined, st)>> :
            ts \in Timestamps(MaxTime), st \in ShiftStatuses \cup BothWays}
    ELSE {<<item>> : item \in StreamItems(hook, {" ab12 "})}

InitShift == InitOver({"part_000"}, {""})

NextShift ==
  \/ Requests({undefined}, ShiftBodies)
  \/ ApiStatus
  \/ SaveTimerFires
  \/ Tick(MaxTime)

SpecShift == InitShift /\ [][NextShift]_vars

\* C23: in part_000, for a written ShiftChange item without an on-shift
\* boolean whose status contains an online keyword and an offline keyword,
\* inferExplicitOnlineFromShift gives false and the record is stored with
\* explicitOnline false.
C23_TieFavoursOffline ==
  [][\A st \in BothWays : \A ts \in Timestamps(MaxTime) :
       LET item == Item(" ab12 ", ts, undefined, st)
       IN WroteShiftItem(item) =>
            /\ IncludesAny(LowerOf(st), ShiftOnWords)
            /\ IncludesAny(LowerOf(st), ShiftOffWords)
            /\ inferExplicitOnlineFromShift(st, null, null, item) = "false"
            /\ onlineMap'["AB12"].explicitOnline = "false"]_vars

-----------------------------------------------------------------------------
(* Spec: the not-working family *)

\* C24: in part_000 a stored record whose driverStatusCode is "NotWorking"
\* or whose label is the sign-off label is derived offline at every clock
\* reading, also when its explicitOnline and lastPingAt are replaced by any
\* other values, and a poll reports it offline.
C24_NotWorkingForcesOffline ==
  impl = "part_000" =>
    \A k \in DOMAIN onlineMap :
      LET rec == onlineMap[k] IN
      (rec.driverStatusCode = "NotWorking" \/ rec.driverStatusLabel = "Off Shift") =>
        /\ \A t \in 0..(MaxTime + OFFLINE_TIMEOUT_MS + 1) :
           \A e \in {"true", "false", null, undefined} :
           \A p \in {nullT, undefinedT} \cup (0..MaxTime) :
             ~P0_computeOnline([rec EXCEPT !.explicitOnline = e, !.lastPingAt = p], t)
        /\ last.op = "api/status" => \A e \in res.data : e.callsign = k => ~e.online

\* a poll reports a vehicle offline whose record says NotWorking, is
\* explicitly online and was pinged at this very instant
C24_Witness ==
  /\ impl = "part_000"
  /\ last.op = "api/status"
  /\ "AB12" \in DOMAIN onlineMap
  /\ onlineMap["AB12"].driverStatusCode = "NotWorking"
  /\ onlineMap["AB12"].explicitOnline = "true"
  /\ onlineMap["AB12"].lastPingAt = now
  /\ \E e \in res.data : e.callsign = "AB12" /\ ~e.online

-----------------------------------------------------------------------------
(* part_001: what the sweep stores and what the read paths report *)

\* the fields of a part_001 record that the sweep is to leave alone
SweptFields(rec) == <<rec.online, rec.updatedAt, rec.lastPingAt, rec.driverStatus>>

\* C25: in part_001 a tick of the sweep leaves online, updatedAt, lastPingAt
\* and driverStatus of every stored record as they were.
C25_SweepReadsOnly ==
  [][(impl = "part_001" /\ last'.op = "sweep") =>
       /\ DOMAIN onlineMap' = DOMAIN onlineMap
       /\ \A k \in DOMAIN onlineMap : SweptFields(onlineMap'[k]) = SweptFields(onlineMap[k])]_vars

\* C26: in part_001 a poll of GET /api/status never reports online = true
\* for a record whose lastPingAt is missing or older than the timeout at
\* the moment of the poll.
C26_PollRecomputesOnline ==
  (impl = "part_001" /\ last.op = "api/status") =>
    \A e \in res.data :
      e.online => ~P1_timedOut(onlineMap[e.callsign], now)

-----------------------------------------------------------------------------
(* SpecExpiry: server.js and part_000 with one subscriber while time passes. *)
(* The timers of the program fire again and again: the clock advances, the   *)
(* heartbeat interval and a pending save timeout run.  Nothing obliges a     *)
(* webhook to arrive.                                                        *)

InitExpiry == InitOver({"server", "part_000"}, {""})

\* a run of the heartbeat interval, told apart from the run before it
HeartbeatAgain == HeartbeatWrites /\ step' = 1 - step

NextExpiry ==
  \/ Requests({undefined}, SaveBodies)
  \/ StreamConnect(1)
  \/ HeartbeatAgain
  \/ SaveTimerFires
  \/ Tick(MaxTime)

SpecExpiry ==
  /\ InitExpiry /\ [][NextExpiry]_vars
  /\ WF_vars(Tick(MaxTime)) /\ WF_vars(HeartbeatAgain) /\ WF_vars(SaveTimerFires)

\* subscriber 1 is connected and AB12, explicitly online, is derived offline
\* only because its ping is older than the timeout
Expired ==
  /\ 1 \in Listening
  /\ "AB12" \in DOMAIN onlineMap
  /\ onlineMap["AB12"].explicitOnline = "true"
  /\ IsFinite(DateParse(onlineMap["AB12"].lastPingAt))
  /\ now - DateParse(onlineMap["AB12"].lastPingAt) > OFFLINE_TIMEOUT_MS
  /\ DerivedOnline(impl, onlineMap["AB12"], DateParse(onlineMap["AB12"].lastPingAt))
  /\ ~DerivedOnline(impl, onlineMap["AB12"], now)

\* the last step delivered to subscriber 1 a status event saying AB12 is offline
ToldOffline ==
  \E i \in 1..Len(wrote[1]) :
    /\ wrote[1][i].event = "status"
    /\ wrote[1][i].payload.callsign = "AB12"
    /\ ~wrote[1][i].payload.online

\* C27: in server.js and part_000, once a record has gone from derived
\* online to derived offline by the passage of time alone, the connected
\* subscriber is eventually sent a status event reporting it offline, unless
\* a new webhook request arrives first.
C27_ExpiryIsBroadcast == Expired ~> (ToldOffline \/ last.op \in Hooks)

-----------------------------------------------------------------------------
(* Spec: out-of-order events in server.js *)

\* C28: in server.js each of the three handlers leaves the record of the
\* item's callsign as it is (updatedAt and lastPingAt included) when the
\* item's parseable timestamp is strictly older than the stored updatedAt.
C28_ServerRejectsStale ==
  impl = "server" =>
    \A hook \in Hooks : \A item \in AllItems(hook) :
      Stale(item, onlineMap) =>
        RunHandler(impl, hook, <<item>>, onlineMap, now).map[normKey(item.callsign)]
          = onlineMap[normKey(item.callsign)]

-----------------------------------------------------------------------------
(* SpecLoad: server.js and part_000 started on a status file.  The file the *)
(* first start finds is absent, unreadable, or was written by an earlier    *)
(* revision whose records carry no lastPingAt and no updatedAt; the process  *)
(* can be restarted at any moment, and the restart loads the file again.     *)

\* records of an earlier format
LegacyRecords ==
  {[EmptyObj EXCEPT !.explicitOnline = e, !.driverStatus = st] :
     e \in {undefined, "true", "false"}, st \in {undefined, "Clear"}}

\* the status file at the first start
StartFiles == {<<>>} \cup {<<JSONstringify([k \in {"AB12"} |-> rec])>> : rec \in LegacyRecords}

\* what the last load did
Loaded(file, readable) == Op(IF file # <<>> /\ ~readable THEN "load-failed" ELSE "load")

InitLoad ==
  /\ impl \in {"server", "part_000"}
  /\ token = ""
  /\ now = 0
  /\ \E file \in StartFiles, readable \in BOOLEAN :
       /\ disk = [NoDisk EXCEPT !.file = file]
       /\ onlineMap = loadStatusFromDisk(file, readable)
       /\ last = Loaded(file, readable)
  /\ sseClients = {}
  /\ conn = [c \in Clients |-> "none"]
  /\ wrote = Silent
  /\ saveTimer = FALSE
  /\ res = NoRes
  /\ step = 0
  /\ inflight = [h \in Hooks |-> <<>>]

\* the process ends and is started again: loadStatusFromDisk(); a pending
\* timeout and the stream connections are gone
Restart(readable) ==
  /\ onlineMap' = loadStatusFromDisk(disk.file, readable)
  /\ last' = Loaded(disk.file, readable)
  /\ disk' = [disk EXCEPT !.timers = 0, !.age = 0, !.calls = 0, !.failed = FALSE]
  /\ saveTimer' = FALSE
  /\ sseClients' = {}
  /\ conn' = [c \in Clients |-> "none"]
  /\ wrote' = Silent
  /\ res' = NoRes
  /\ UNCHANGED <<step, inflight, impl, token, now>>

NextLoad ==
  \/ \E hook \in Hooks : \E items \in SaveBodies(hook) : SaveWebhook(hook, items)
  \/ TimerAges
  \/ SaveTimerCompletes(TRUE)
  \/ \E readable \in BOOLEAN : Restart(readable)
  \/ ApiStatus
  \/ Tick(MaxTime)

SpecLoad == InitLoad /\ [][NextLoad]_vars

\* C29: in part_000, right after a load, a record without a lastPingAt is
\* derived offline by computeOnline and reported offline, whatever its other
\* fields; and the store is empty when the file is missing or unreadable.
C29_LoadedWithoutPingIsOffline ==
  impl = "part_000" =>
    /\ (last.op = "load-failed" \/ (last.op = "load" /\ disk.file = <<>>)) =>
         DOMAIN onlineMap = {}
    /\ last.op = "load" =>
         \A k \in DOMAIN onlineMap :
           ~TruthyT(onlineMap[k].lastPingAt) => ~P0_computeOnline(onlineMap[k], now)

\* the fields of a record that the file is to preserve
SavedFields ==
  {"lastPingAt", "updatedAt", "explicitOnline", "driverStatusCode", "driverStatusLabel",
   "driverStatus"}

-----------------------------------------------------------------------------
(* SpecPing: part_000 with two vehicles.  Pings carry every kind of          *)
(* timestamp; Status and ShiftChange items are stamped by the server.        *)

PingCallsigns == {"AB12", "cd34"}

PingItems == ItemsOf("part_000", "HackneyLocation", PingCallsigns, Timestamps(MaxTime))

PingBodies(hook) ==
  IF hook = "HackneyLocation" THEN {<<item>> : item \in PingItems}
  ELSE {<<item>> : item \in StreamItems(hook, PingCallsigns)}

InitPing == InitOver({"part_000"}, {""})

NextPing ==
  \/ Requests({undefined}, PingBodies)
  \/ SaveTimerFires
  \/ Tick(MaxTime)

SpecPing == InitPing /\ [][NextPing]_vars

\* the step is the HackneyLocation request of item, and the item was written
WrotePingItem(item) ==
  /\ last'.op = "HackneyLocation" /\ res'.updates = 1
  /\ onlineMap' = RunHandler(impl, "HackneyLocation", <<item>>, onlineMap, now).map
  /\ RunHandler(impl, "HackneyLocation", <<item>>, onlineMap, now).updates = 1

\* C31: in part_000 a written ping sets lastPingAt and updatedAt of its
\* vehicle's record to the item's timestamp (the time of handling if it has
\* none), sets explicitOnline to true only where it was null or undefined,
\* carries every other field of the record over (driverStatusCode,
\* driverStatusLabel and driverStatus among them), and leaves the records of
\* the other vehicles as they were.
C31_PingFrame ==
  [][\A item \in PingItems : WrotePingItem(item) =>
       (LET key == normKey(item.callsign)
            before == MapGet(onlineMap, key)
            after == onlineMap'[key]
            ts == IF item.timestamp = undefinedT THEN now ELSE item.timestamp
        IN /\ after.lastPingAt = ts /\ after.updatedAt = ts
           /\ after.explicitOnline =
                (IF before.explicitOnline \in {undefined, null} THEN "true"
                 ELSE before.explicitOnline)
           /\ after.driverStatusCode = before.driverStatusCode
           /\ after.driverStatusLabel = before.driverStatusLabel
           /\ after.driverStatus = before.driverStatus
           /\ \A f \in DOMAIN after \ {"lastPingAt", "updatedAt", "explicitOnline"} :
                after[f] = before[f]
           /\ DOMAIN onlineMap' = DOMAIN onlineMap \cup {key}
           /\ \A k \in DOMAIN onlineMap \ {key} : onlineMap'[k] = onlineMap[k])]_vars

\* a ping was just written for AB12, whose record keeps the status code of an
\* earlier Status event and the explicit offline of an earlier sign-off,
\* while the store also holds a record for CD34
C31_Witness ==
  /\ last.op = "HackneyLocation" /\ res.updates = 1
  /\ {"AB12", "CD34"} \subseteq DOMAIN onlineMap
  /\ onlineMap["AB12"].driverStatusCode = "Clear"
  /\ onlineMap["AB12"].explicitOnline = "false"
  /\ onlineMap["AB12"].lastPingAt = now /\ onlineMap["AB12"].updatedAt = now
  /\ onlineMap["CD34"].updatedAt < now


\* C32: in part_000, right after a written sign-on whose timestamp is within
\* the timeout of the current time, the record is derived online, whatever
\* it held before.
C32_SignOnGoesOnline ==
  [][(impl = "part_000") =>
       /\ \A item \in ShiftItems(impl, "signed on") : WroteShiftItem(item) =>
            (LET ts == IF item.timestamp = undefinedT THEN now ELSE item.timestamp
             IN (now - ts <= OFFLINE_TIMEOUT_MS) =>
                  P0_computeOnline(onlineMap'["AB12"], now'))]_vars


-----------------------------------------------------------------------------
(* SpecExit: server.js and part_000 with the status file, under SIGTERM and  *)
(* SIGINT.  After the exit the store stays in the state as the process held  *)
(* it last, until the process is started again.                              *)

\* process.on("SIGTERM" / "SIGINT"): saveStatusToDisk() arms the timeout,
\* process.exit(0) ends the process before any timeout can fire
Shutdown ==
  /\ last.op # "exit"
  /\ disk' = [saveStatusToDisk(disk) EXCEPT !.timers = 0, !.age = 0, !.calls = 0]
  /\ saveTimer' = FALSE
  /\ sseClients' = {}
  /\ conn' = [c \in Clients |-> "none"]
  /\ wrote' = Silent
  /\ last' = Op("exit")
  /\ res' = NoRes
  /\ UNCHANGED <<step, inflight, impl, token, now, onlineMap>>

\* the process is started after an exit
Start == last.op = "exit" /\ Restart(TRUE)

\* the steps of a running process
Running ==
  \/ \E hook \in Hooks : \E items \in SaveBodies(hook) : SaveWebhook(hook, items)
  \/ TimerAges
  \/ SaveTimerCompletes(TRUE)
  \/ Tick(MaxTime)

NextExit ==
  \/ last.op # "exit" /\ Running
  \/ Shutdown
  \/ Start

SpecExit == InitSave /\ [][NextExit]_vars

\* C33: when the process exits on SIGTERM or SIGINT while the file does not
\* hold the store, the file holds the store after the exit.
C33_ShutdownSaves ==
  [][(last'.op = "exit" /\ disk.file # <<JSONstringify(onlineMap)>> /\ DOMAIN onlineMap # {}) =>
       disk'.file = <<JSONstringify(onlineMap)>>]_vars


-----------------------------------------------------------------------------
(* SpecFlush: a process that keeps running and whose writes succeed.  At    *)
(* most MaxBurst webhooks arrive while a timeout is pending, so every burst *)
(* of mutations ends in a pause; time passes and a due timeout fires.       *)

NextFlush ==
  \/ \E hook \in Hooks : \E items \in SaveBodies(hook) : SaveWebhook(hook, items)
  \/ TimerAges
  \/ SaveTimerCompletes(TRUE)
  \/ Tick(MaxTime)

SpecFlush ==
  /\ InitSave
  /\ [][NextFlush]_vars
  /\ WF_vars(TimerAges)
  /\ WF_vars(SaveTimerCompletes(TRUE))

C35_CurrentTimeAccepted ==
  impl = "part_000" =>
    \A hook \in Hooks : \A item \in ItemsOf(impl, hook, {" ab12 "}, {undefinedT}) :
      RunHandler(impl, hook, <<item>>, onlineMap, now).updates = 1


\* C36: in part_000, from an empty store, every record with explicitOnline
\* true holds a lastPingAt (neither null nor undefined), so that the timeout
\* of computeOnline applies to every record that is derived online.
C36_ExplicitOnlineHasPing ==
  impl = "part_000" =>
    \A k \in DOMAIN onlineMap :
      /\ onlineMap[k].explicitOnline = "true" => onlineMap[k].lastPingAt >= 0
      /\ P0_computeOnline(onlineMap[k], now) =>
           /\ onlineMap[k].lastPingAt >= 0
           /\ now - onlineMap[k].lastPingAt <= OFFLINE_TIMEOUT_MS

\* a Status event without a status code has just made a record explicitly
\* online that still carries the label of a sign-off; its lastPingAt is set
C36_Witness ==
  /\ impl = "part_000"
  /\ last.op = "Status" /\ res.updates = 1
  /\ "AB12" \in DOMAIN onlineMap
  /\ onlineMap["AB12"].explicitOnline = "true"
  /\ onlineMap["AB12"].driverStatus \in {"signed off", "Off Shift"}
  /\ onlineMap["AB12"].lastPingAt = MaxTime /\ onlineMap["AB12"].updatedAt = MaxTime

\* C37: in part_000, from an empty store, every record that holds a
\* lastPingAt has lastPingAt <= updatedAt.
C37_PingNotAfterUpdate ==
  impl = "part_000" =>
    \A k \in DOMAIN onlineMap :
      onlineMap[k].lastPingAt >= 0 =>
        /\ onlineMap[k].updatedAt >= 0
        /\ onlineMap[k].lastPingAt <= onlineMap[k].updatedAt

\* a record whose lastPingAt is strictly older than its updatedAt, after a
\* request that was written
C37_Witness ==
  /\ impl = "part_000"
  /\ last.op \in Hooks /\ res.updates = 1
  /\ "AB12" \in DOMAIN onlineMap
  /\ onlineMap["AB12"].lastPingAt = 0
  /\ onlineMap["AB12"].updatedAt = MaxTime


-----------------------------------------------------------------------------
(* SpecStamp: part_000 with one subscriber, under bodies of one item whose   *)
(* timestamp is missing, unparseable or an instant.  step is 1 after a       *)
(* request whose item had a callsign and an unparseable timestamp.           *)

Unparsed(item) == Truthy(extractCallsign(item)) /\ item.timestamp = Garbage

StampWebhook(hook, items) ==
  /\ HandleWebhook(hook, undefined, items)
  /\ step' = IF Unparsed(items[1]) THEN 1 ELSE 0
  /\ UNCHANGED <<disk, inflight>>

InitStamp == InitOver({"part_000"}, {""})

NextStamp ==
  \/ \E hook \in Hooks : \E items \in SingleBodies(hook) : StampWebhook(hook, items)
  \/ StreamConnect(1)
  \/ SaveTimerFires
  \/ Tick(MaxTime)

SpecStamp == InitStamp /\ [][NextStamp]_vars

\* C38: in part_000 a request whose item carries a timestamp that cannot be
\* parsed leaves the store as it is (no record created, none changed), is
\* answered with updates 0, writes nothing to the subscribers and arms no
\* save; and every stored updatedAt is a parseable timestamp.
C38_UnparsedNeverApplied ==
  /\ [](\A k \in DOMAIN onlineMap : IsFinite(DateParse(onlineMap[k].updatedAt)))
  /\ [][(last'.op \in Hooks /\ step' = 1) =>
          /\ onlineMap' = onlineMap
          /\ res'.status = 200 /\ res'.updates = 0
          /\ wrote' = Silent
          /\ saveTimer' = saveTimer]_vars

\* a ShiftChange item for a new callsign with an unparseable timestamp has
\* been answered while a subscriber listens, and the store is still empty
C38_Witness ==
  /\ last.op = "ShiftChange" /\ step = 1
  /\ res.updates = 0
  /\ sseClients = {1}
  /\ DOMAIN onlineMap = {}


\* C39: in part_001 a tick of the sweep keeps the set of stored callsigns,
\* leaves every offline record offline, and changes the online flag of a
\* record only from true to false.
C39_SweepOnlyTurnsOffline ==
  [][(impl = "part_001" /\ last'.op = "sweep") =>
       /\ DOMAIN onlineMap' = DOMAIN onlineMap
       /\ \A k \in DOMAIN onlineMap :
            /\ onlineMap[k].online # "true" => onlineMap'[k].online = onlineMap[k].online
            /\ onlineMap'[k].online \in {onlineMap[k].online, "false"}
            /\ onlineMap'[k].online = "true" => onlineMap[k].online = "true"]_vars

\* a sweep has just turned AB12 offline, whose ping has timed out, and has
\* left CD34 online, whose ping is fresh
C39_Witness ==
  /\ impl = "part_001"
  /\ last.op = "sweep"
  /\ DOMAIN onlineMap = {"AB12", "CD34"}
  /\ onlineMap["AB12"].online = "false" /\ onlineMap["AB12"].updatedAt = now
  /\ onlineMap["AB12"].lastPingAt >= 0
  /\ now - onlineMap["AB12"].lastPingAt > OFFLINE_AFTER_MS
  /\ onlineMap["CD34"].online = "true"


\* C40: sseClients holds exactly the connections that were written their
\* snapshot and whose request has not emitted close: a connection enters the
\* set only in the step that writes it the snapshot, leaves it only in the
\* step that handles its close, and a connection that is not in the set
\* after a step was written no status event and no heartbeat by that step.
C40_SubscribersAreOpenStreams ==
  /\ [](sseClients = {c \in Clients : conn[c] # "none"})
  /\ [][\A c \in Clients :
          /\ (c \in sseClients' /\ c \notin sseClients) =>
               /\ last'.op = "api/status/stream"
               /\ wrote'[c] # <<>> /\ wrote'[c][1].event = "snapshot"
          /\ (c \in sseClients /\ c \notin sseClients') =>
               /\ last'.op = "close"
               /\ conn[c] = "broken" /\ conn'[c] = "none"
          /\ c \notin sseClients' =>
               \A i \in 1..Len(wrote'[c]) : wrote'[c][i].event \notin {"status", "heartbeat"}]_vars

\* the close of connection 1 has just been handled while connection 2 stays
\* subscribed
C40_Witness ==
  /\ last.op = "close"
  /\ conn[1] = "none" /\ conn[2] = "open"
  /\ sseClients = {2}
  /\ "AB12" \in DOMAIN onlineMap

=============================================================================
